---- MODULE Spec2Model ----
(***************************************************************************)
(* A model of the RTLauncher download core (src-tauri/src): the batch      *)
(* downloader, the task manager, the version-manifest loader, the client   *)
(* download planner with its source router, and download_file.             *)
(*                                                                         *)
(* Each subsystem has its own variables, its own initial predicate and its *)
(* own next-state relation; a specification runs one subsystem and holds   *)
(* the variables of the others at their idle values.                       *)
(***************************************************************************)
EXTENDS Integers, Sequences, FiniteSets, TLC

\* ------------------------------------------------------------------------
\* Bounds of the model
\* ------------------------------------------------------------------------
MaxBatch == 3
MaxPool == 2
MaxTasks == 1       \* task ids the registry can hold
MaxCallers == 2     \* start_task calls (each may spawn one worker)
MaxFiles == 2       \* files a planner run submits to download_batch
ProgressCap == 2    \* stands for the progress channel's capacity of 100
MaxDirect == 1      \* direct update_progress calls in one behaviour
MaxLibs == 1        \* libraries a version JSON lists
MaxAssets == 2      \* objects an asset index lists
MaxSize == 4        \* bytes of the resource download_file fetches
MaxChunks == 3      \* config.large_file_chunks
MaxChunkFaults == 3 \* chunk requests that fail during one ranged download
MaxSplitSize == 14  \* file sizes for which the split into ranges is computed
MaxBytes == 4       \* bytes accepted on the speed channel in one behaviour
MaxDelta == 2       \* bytes one delta reports
MaxClock == 10      \* quarter seconds the throughput aggregator is followed for
MaxThreads == 2     \* worker threads of the async runtime

\* ------------------------------------------------------------------------
\* Variables
\* ------------------------------------------------------------------------
VARIABLES
    \* download_batch (download/downloader.rs)
    thread_pool_size,   \* config.thread_pool_size
    total,              \* tasks.len()
    fut,                \* per input task: position of its future
    permits,            \* free permits of the semaphore
    completed,          \* the AtomicUsize counter
    results,            \* the collected Vec, in the order the stream yields
    progress_calls,     \* the arguments on_progress was called with, in order
    \* TaskManager (task.rs) and the task it runs (tasks/client.rs)
    tasks,              \* the registry: id -> TaskInfo
    task_wrappers,      \* ids whose TaskWrapper is stored
    progress_q,         \* the progress channel, oldest update first
    call,               \* per start_task call: its position and its id
    worker,             \* per start_task call: the worker it spawned
    direct_calls,       \* update_progress calls made so far
    \* DlClientListLoader::execute and get_version_list (client_list.rs)
    m_call,             \* the call in progress: entry point, arguments, position
    m_contacted,        \* the sources the call has contacted, in order
    m_loads,            \* per contacted source: what it answered and what timeout(..) gave
    m_first,            \* what the first source's attempt ended with
    m_result,           \* what the call returned
    version_cache,      \* VERSION_CACHE: preference -> document
    \* the planning part of DownloadClientTask::execute (tasks/client.rs)
    p_pc,               \* position of the planner
    p_json,             \* what the version JSON says: jar, asset index, libraries
    index_task,         \* the DownloadTask of the asset index
    all_tasks,          \* the Vec given to download_batch
    p_origin,           \* per entry of all_tasks: the URL it was planned from
    \* HighSpeedDownloader::download_file (download/downloader.rs)
    d_task,             \* the DownloadTask
    d_cfg,              \* the DownloadConfig
    srv,                \* the resource behind the URLs and how it is served
    fs_file,            \* the file at local_path: None, or Some(content)
    fs_parts,           \* {local_path}.parts: None, or part index -> None / Some(content)
    d_pc,               \* position of download_file
    d_path,             \* the path the call took: "short", "small", "large"
    d_result,           \* what download_file returned
    requests,           \* per URL: the HTTP requests sent to it
    pre_hash,           \* what calculate_sha1 gave in the pre-fetch check
    d_url_index,        \* single-stream loop: url_index
    d_attempt,          \* single-stream loop: attempt
    chunk_w,            \* per chunk: its worker's range, position and requests sent per URL
    d_join,             \* the handle download_large_file awaits next
    finish_order,       \* chunk indexes in the order their workers succeeded
    d_merge,            \* merge_chunks: parts appended to local_path so far
    chunk_faults,       \* chunk requests that have failed so far
    d_inflight,         \* single-stream requests sent and not yet answered
    d_hash,             \* what calculate_sha1 gave in the latest verification
    \* dl_source_launcher_or_meta_get called on its own (source.rs)
    r_pc,               \* "idle", "called", "returned"
    r_url,              \* original_url
    r_urls,             \* the Vec returned
    \* the throughput aggregator spawned by TaskManager::new (task.rs)
    speed_q,            \* the speed channel, oldest delta first
    bytes_accumulated,  \* the aggregator's HashMap: id -> bytes drained, not yet committed
    agg_now,            \* Instant::now() as the aggregator last read it, in quarter seconds
    last_update,        \* the aggregator's last_update
    speed_sent,         \* per id: bytes accepted on the channel while the id was registered
    speed_early,        \* per id: bytes accepted before the id was registered
    \* the locks of the task manager and of the manifest cache
    l_threads,          \* worker threads the runtime has
    l_pc,               \* per operation: the step of its code it is at
    l_run,              \* the operations that occupy a thread (polled, or blocked on a lock)
    l_held              \* per operation: the guards it holds

batchVars == <<thread_pool_size, total, fut, permits, completed, results, progress_calls>>

tmVars == <<tasks, task_wrappers, progress_q, call, worker, direct_calls>>

manVars == <<m_call, m_contacted, m_loads, m_first, m_result, version_cache>>

planVars == <<p_pc, p_json, index_task, all_tasks, p_origin>>

fileVars ==
    <<d_task, d_cfg, srv, fs_file, fs_parts, d_pc, d_path, d_result, requests,
      pre_hash, d_url_index, d_attempt, chunk_w, d_join, finish_order, d_merge,
      chunk_faults, d_inflight, d_hash>>

routeVars == <<r_pc, r_url, r_urls>>

aggVars == <<speed_q, bytes_accumulated, agg_now, last_update, speed_sent, speed_early>>

lockVars == <<l_threads, l_pc, l_run, l_held>>

vars == <<batchVars, tmVars, manVars, planVars, fileVars, routeVars, aggVars, lockVars>>

\* What the actions of one subsystem leave alone.
nonBatchVars == <<tmVars, manVars, planVars, fileVars, routeVars, aggVars, lockVars>>
nonTMVars == <<batchVars, manVars, planVars, fileVars, routeVars, aggVars, lockVars>>
nonManVars == <<batchVars, tmVars, planVars, fileVars, routeVars, aggVars, lockVars>>
nonPlanVars == <<batchVars, tmVars, manVars, fileVars, routeVars, aggVars, lockVars>>
nonFileVars == <<batchVars, tmVars, manVars, planVars, routeVars, aggVars, lockVars>>
nonRouteVars == <<batchVars, tmVars, manVars, planVars, fileVars, aggVars, lockVars>>
nonAggVars == <<batchVars, manVars, planVars, fileVars, routeVars, lockVars>>
nonLockVars == <<batchVars, tmVars, manVars, planVars, fileVars, routeVars, aggVars>>

\* ------------------------------------------------------------------------
\* Helpers
\* ------------------------------------------------------------------------
Range(s) == {s[i] : i \in DOMAIN s}

\* ========================================================================
\* download_batch
\* ========================================================================

\* A plausible slip: the semaphore and the buffer sized by the batch length.
BatchWidthTotal == total

\* self.config.thread_pool_size, the width given to Semaphore::new and to
\* buffer_unordered.
BatchWidth == thread_pool_size

\* Futures the stream has pulled and not yet yielded (in_progress_queue).
Buffered == {i \in 1..total : fut[i] \in {"acquire", "downloading"}}

\* download_file invocations in progress.
InProgress == {i \in 1..total : fut[i] = "downloading"}

\* A plausible slip: using fetch_add's return value (the previous count).
FetchAddCountPrev(c) == c

\* completed.fetch_add(1, SeqCst) + 1
FetchAddCount(c) == c + 1

\* A plausible slip: the permit forgotten instead of dropped.
DropPermitLeaked(p) == p

\* `_permit` goes out of scope at the end of the future: the permit returns
\* to the semaphore.
DropPermit(p) == p + 1

BatchInit ==
    /\ thread_pool_size \in 1..MaxPool
    /\ total \in 0..MaxBatch
    /\ fut = [i \in 1..total |-> "iter"]
    /\ permits = BatchWidth
    /\ completed = 0
    /\ results = <<>>
    /\ progress_calls = <<>>

BatchIdle ==
    /\ thread_pool_size = 1
    /\ total = 0
    /\ fut = <<>>
    /\ permits = 1
    /\ completed = 0
    /\ results = <<>>
    /\ progress_calls = <<>>

\* buffer_unordered pulls the next task from the iterator while fewer than
\* thread_pool_size futures are buffered; the future starts at the acquire.
StreamPull(i) ==
    /\ i \in 1..total
    /\ fut[i] = "iter"
    /\ \A j \in 1..(i - 1) : fut[j] # "iter"
    /\ Cardinality(Buffered) < BatchWidth
    /\ fut' = [fut EXCEPT ![i] = "acquire"]
    /\ UNCHANGED <<thread_pool_size, total, permits, completed, results, progress_calls>>
    /\ UNCHANGED nonBatchVars

\* semaphore.acquire().await returns a permit; download_file(&task) begins.
SemAcquire(i) ==
    /\ i \in 1..total
    /\ fut[i] = "acquire"
    /\ permits > 0
    /\ permits' = permits - 1
    /\ fut' = [fut EXCEPT ![i] = "downloading"]
    /\ UNCHANGED <<thread_pool_size, total, completed, results, progress_calls>>
    /\ UNCHANGED nonBatchVars

\* download_file returns `ok`.  The rest of the future has no await: the
\* counter and the callback (on success), the permit dropped, the result
\* yielded to collect().  All futures of the stream are polled by the one
\* task that awaits download_batch, so this runs as one step.
DownloadFinish(i, ok) ==
    /\ i \in 1..total
    /\ fut[i] = "downloading"
    /\ IF ok
         THEN /\ completed' = completed + 1
              /\ progress_calls' = Append(progress_calls,
                                          <<FetchAddCount(completed), total>>)
         ELSE UNCHANGED <<completed, progress_calls>>
    /\ permits' = DropPermit(permits)
    /\ results' = Append(results, [task |-> i, ok |-> ok])
    /\ fut' = [fut EXCEPT ![i] = "done"]
    /\ UNCHANGED <<thread_pool_size, total>>
    /\ UNCHANGED nonBatchVars

BatchNext ==
    \/ \E i \in 1..total : StreamPull(i)
    \/ \E i \in 1..total : SemAcquire(i)
    \/ \E i \in 1..total : \E ok \in BOOLEAN : DownloadFinish(i, ok)

\* collect() has returned: every future was yielded.
BatchReturned == Len(results) = total /\ \A i \in 1..total : fut[i] = "done"

\* The Vec<Result<()>> download_batch returns.
Returned == [j \in 1..Len(results) |-> results[j].ok]

\* What download_file returned for input task i.
OutcomeOf(i) == (CHOOSE r \in Range(results) : r.task = i).ok

Succeeded == {i \in 1..total : fut[i] = "done" /\ OutcomeOf(i)}

\* ------------------------------------------------------------------------
\* Properties of download_batch
\* ------------------------------------------------------------------------

\* C1: when download_batch has returned, the returned sequence has one
\* outcome per input task and the outcome at position i is the outcome of
\* input task i.
C1_ResultsInInputOrder ==
    BatchReturned =>
        /\ Len(Returned) = total
        /\ \A i \in 1..total : Returned[i] = OutcomeOf(i)

\* C6: at every instant the number of download_file invocations in progress
\* is at most config.thread_pool_size (max_concurrency).
C6_ConcurrencyBounded == Cardinality(InProgress) <= thread_pool_size

\* C6 witness: more tasks than slots, every slot busy, a task still waiting.
C6_Witness ==
    /\ thread_pool_size = 2
    /\ Cardinality(InProgress) = 2
    /\ \E i \in 1..total : fut[i] = "iter"

\* C7: on_progress has been called once per task that succeeded so far and
\* never for a failed one, and the completed values it received are, in call
\* order, 1, 2, ..., k (each with the batch total); at the return k is the
\* number of successful tasks.
C7_ProgressCallsExact ==
    progress_calls = [k \in 1..Cardinality(Succeeded) |-> <<k, total>>]

\* C7 witness: a returned batch with two successes and a failure whose
\* downloads finished out of input order.
C7_Witness ==
    /\ BatchReturned
    /\ Cardinality(Succeeded) >= 2
    /\ \E i \in 1..total : ~OutcomeOf(i)
    /\ \E j \in 1..(Len(results) - 1) : results[j].task > results[j + 1].task

\* What the runtime and the network guarantee download_batch: a future the
\* stream can pull is pulled, a waiter of the semaphore gets a permit that
\* stays free (the semaphore serves its waiters in order), and a
\* download_file in progress returns, every request of its bounded retry
\* loops returning or timing out.
BatchFairness ==
    \A i \in 1..MaxBatch :
        /\ WF_vars(StreamPull(i))
        /\ WF_vars(SemAcquire(i))
        /\ WF_vars(\E ok \in BOOLEAN : DownloadFinish(i, ok))

\* The batch has returned with one outcome for each input task.
OneOutcomeEach ==
    /\ BatchReturned
    /\ \A i \in 1..total : Cardinality({j \in DOMAIN results : results[j].task = i}) = 1

\* C40: download_batch terminates and does not deadlock on its semaphore:
\* for every number of tasks and every max_concurrency >= 1, with every
\* download_file returning, each task gets a permit and the batch returns
\* with one outcome per task.
C40_BatchTerminates == <>OneOutcomeEach

\* A batch of MaxBatch tasks over a single permit has returned, a failed
\* download among them.
C40_Witness ==
    /\ OneOutcomeEach
    /\ total = MaxBatch
    /\ thread_pool_size = 1
    /\ permits = 1
    /\ \E j \in DOMAIN results : ~results[j].ok

\* ========================================================================
\* TaskManager, and DownloadClientTask::execute as the task it runs
\* ========================================================================
TaskIds == 1..MaxTasks
Callers == 1..MaxCallers

\* TaskStatus; Failed carries its reason.
Status(tag, reason) == [tag |-> tag, reason |-> reason]
Pending == Status("Pending", "")
Running == Status("Running", "")
Completed == Status("Completed", "")
Failed(reason) == Status("Failed", reason)

\* update.status == Completed || matches!(update.status, Failed(_))
IsTerminal(st) == st.tag \in {"Completed", "Failed"}

\* TaskProgress (current_speed and total_bytes are written and never read).
TaskProgress(t, c, b) == [total |-> t, completed |-> c, downloaded_bytes |-> b]

\* TaskInfo::new: Pending, TaskProgress::new(), no started_at, no finished_at.
TaskInfoNew ==
    [status |-> Pending, progress |-> TaskProgress(0, 0, 0),
     started_at |-> FALSE, finished_at |-> FALSE]

\* A plausible slip: the two counts of an update exchanged.
UpdateSwapped(id, t, c, st) ==
    [task_id |-> id, progress |-> TaskProgress(c, t, 0), status |-> st]

\* TaskProgressUpdate
Update(id, t, c, st) == [task_id |-> id, progress |-> TaskProgress(t, c, 0), status |-> st]

\* A plausible slip: the message naming the successes instead of the failures.
RatioMsgOfSuccess(failed, n) == ToString(n - failed) \o "/" \o ToString(n)

\* The planner's failure message "{total - success}/{total} 文件下载失败".
RatioMsg(failed, n) == ToString(failed) \o "/" \o ToString(n)

NoCall == [pc |-> "idle", id |-> 0]
NoWorker == [pc |-> "none", id |-> 0, total |-> 0, done |-> 0, ok |-> 0, result |-> "none"]

TMInit ==
    /\ tasks = <<>>
    /\ task_wrappers = {}
    /\ progress_q = <<>>
    /\ call = [c \in Callers |-> NoCall]
    /\ worker = [c \in Callers |-> NoWorker]
    /\ direct_calls = 0

TMIdle ==
    /\ tasks = <<>>
    /\ task_wrappers = {}
    /\ progress_q = <<>>
    /\ call = <<>>
    /\ worker = <<>>
    /\ direct_calls = 0

\* What the reducer and update_progress do to an entry: overwrite progress
\* and status, set finished_at on a terminal status.
ApplyUpdate(info, progress, st) ==
    [info EXCEPT !.progress = progress,
                 !.status = st,
                 !.finished_at = IF IsTerminal(st) THEN TRUE ELSE @]

\* append_task, up to the await on the wrapper table: tasks.insert(id, info).
AppendInsert(id) ==
    /\ id \in TaskIds \ DOMAIN tasks
    /\ \A j \in 1..(id - 1) : j \in DOMAIN tasks
    /\ tasks' = tasks @@ (id :> TaskInfoNew)
    /\ UNCHANGED <<task_wrappers, progress_q, call, worker, direct_calls>>
    /\ UNCHANGED nonTMVars

\* append_task, after the await: task_wrappers.write().await.insert(id, ..).
AppendWrapper(id) ==
    /\ id \in DOMAIN tasks
    /\ id \notin task_wrappers
    /\ task_wrappers' = task_wrappers \cup {id}
    /\ UNCHANGED <<tasks, progress_q, call, worker, direct_calls>>
    /\ UNCHANGED nonTMVars

\* start_task: the read of the entry and the status check.
StartCheck(c, id) ==
    /\ call[c].pc = "idle"
    /\ call' = [call EXCEPT ![c] =
                  [pc |-> IF id \in DOMAIN tasks /\ tasks[id].status = Pending
                            THEN "checked" ELSE "err",
                   id |-> id]]
    /\ UNCHANGED <<tasks, task_wrappers, progress_q, worker, direct_calls>>
    /\ UNCHANGED nonTMVars

\* start_task: get_mut(task_id): status = Running, started_at = now.
StartMark(c) ==
    /\ call[c].pc = "checked"
    /\ tasks' = [tasks EXCEPT ![call[c].id] =
                   [@ EXCEPT !.status = Running, !.started_at = TRUE]]
    /\ call' = [call EXCEPT ![c].pc = "marked"]
    /\ UNCHANGED <<task_wrappers, progress_q, worker, direct_calls>>
    /\ UNCHANGED nonTMVars

\* start_task: the wrapper lookup (after the await on the read lock) and
\* tokio::spawn of the worker; Err when the wrapper is not stored.
StartSpawn(c) ==
    /\ call[c].pc = "marked"
    /\ IF call[c].id \in task_wrappers
         THEN /\ call' = [call EXCEPT ![c].pc = "ok"]
              /\ worker' = [worker EXCEPT ![c] =
                              [NoWorker EXCEPT !.pc = "version_json", !.id = call[c].id]]
         ELSE /\ call' = [call EXCEPT ![c].pc = "err"]
              /\ UNCHANGED worker
    /\ UNCHANGED <<tasks, task_wrappers, progress_q, direct_calls>>
    /\ UNCHANGED nonTMVars

\* execute: download_version_json; None returns Err.
ExecVersionJson(c, ok) ==
    /\ worker[c].pc = "version_json"
    /\ worker' = [worker EXCEPT ![c] =
                    IF ok THEN [@ EXCEPT !.pc = "asset_index"]
                          ELSE [@ EXCEPT !.pc = "finalize", !.result = "version_json"]]
    /\ UNCHANGED <<tasks, task_wrappers, progress_q, call, direct_calls>>
    /\ UNCHANGED nonTMVars

\* execute: download_asset_index; Err(e) returns Err(e).
ExecAssetIndex(c, ok) ==
    /\ worker[c].pc = "asset_index"
    /\ worker' = [worker EXCEPT ![c] =
                    IF ok THEN [@ EXCEPT !.pc = "collect"]
                          ELSE [@ EXCEPT !.pc = "finalize", !.result = "asset_index"]]
    /\ UNCHANGED <<tasks, task_wrappers, progress_q, call, direct_calls>>
    /\ UNCHANGED nonTMVars

\* execute: all_tasks is collected; total_tasks = all_tasks.len().
ExecCollect(c, n) ==
    /\ worker[c].pc = "collect"
    /\ worker' = [worker EXCEPT ![c] = [@ EXCEPT !.pc = "send_init", !.total = n]]
    /\ UNCHANGED <<tasks, task_wrappers, progress_q, call, direct_calls>>
    /\ UNCHANGED nonTMVars

\* execute: progress_tx.send({total, 0, Running}).await; waits while full.
ExecSendInitial(c) ==
    /\ worker[c].pc = "send_init"
    /\ Len(progress_q) < ProgressCap
    /\ progress_q' = Append(progress_q, Update(worker[c].id, worker[c].total, 0, Running))
    /\ worker' = [worker EXCEPT ![c].pc = "batch"]
    /\ UNCHANGED <<tasks, task_wrappers, call, direct_calls>>
    /\ UNCHANGED nonTMVars

\* execute: one download of the batch finishes.  On success the callback
\* try_sends {total, completed, Running}: dropped when the channel is full.
ExecFileDone(c, ok) ==
    /\ worker[c].pc = "batch"
    /\ worker[c].done < worker[c].total
    /\ worker' = [worker EXCEPT ![c] =
                    [@ EXCEPT !.done = @ + 1, !.ok = IF ok THEN @ + 1 ELSE @]]
    /\ progress_q' =
         IF ok /\ Len(progress_q) < ProgressCap
           THEN Append(progress_q,
                       Update(worker[c].id, worker[c].total, worker[c].ok + 1, Running))
           ELSE progress_q
    /\ UNCHANGED <<tasks, task_wrappers, call, direct_calls>>
    /\ UNCHANGED nonTMVars

\* execute: the batch has returned; the terminal update is sent (waiting
\* while the channel is full) and execute returns Ok or Err(error_msg).
ExecSendFinal(c) ==
    /\ worker[c].pc = "batch"
    /\ worker[c].done = worker[c].total
    /\ Len(progress_q) < ProgressCap
    /\ LET w == worker[c]
           msg == RatioMsg(w.total - w.ok, w.total)
       IN  IF w.ok = w.total
             THEN /\ progress_q' = Append(progress_q,
                                          Update(w.id, w.total, w.total, Completed))
                  /\ worker' = [worker EXCEPT ![c] =
                                  [@ EXCEPT !.pc = "finalize", !.result = "Ok"]]
             ELSE /\ progress_q' = Append(progress_q,
                                          Update(w.id, w.total, w.ok, Failed(msg)))
                  /\ worker' = [worker EXCEPT ![c] =
                                  [@ EXCEPT !.pc = "finalize", !.result = msg]]
    /\ UNCHANGED <<tasks, task_wrappers, call, direct_calls>>
    /\ UNCHANGED nonTMVars

\* The spawned worker after execute returned: the final write under get_mut.
WorkerFinalize(c) ==
    /\ worker[c].pc = "finalize"
    /\ LET id == worker[c].id
       IN  tasks' =
             IF id \in DOMAIN tasks
               THEN [tasks EXCEPT ![id] =
                       IF worker[c].result = "Ok"
                         THEN [@ EXCEPT !.status = Completed,
                                        !.progress.completed = tasks[id].progress.total,
                                        !.finished_at = TRUE]
                         ELSE [@ EXCEPT !.status = Failed(worker[c].result),
                                        !.finished_at = TRUE]]
               ELSE tasks
    /\ worker' = [worker EXCEPT ![c].pc = "done"]
    /\ UNCHANGED <<task_wrappers, progress_q, call, direct_calls>>
    /\ UNCHANGED nonTMVars

\* The progress reducer: one update received and applied.
ProgressReducer ==
    /\ progress_q # <<>>
    /\ LET update == Head(progress_q)
       IN  tasks' =
             IF update.task_id \in DOMAIN tasks
               THEN [tasks EXCEPT ![update.task_id] =
                       ApplyUpdate(@, update.progress, update.status)]
               ELSE tasks
    /\ progress_q' = Tail(progress_q)
    /\ UNCHANGED <<task_wrappers, call, worker, direct_calls>>
    /\ UNCHANGED nonTMVars

\* update_progress(task_id, progress, status), as any caller may call it.
UpdateProgress(id, progress, st) ==
    /\ tasks' =
         IF id \in DOMAIN tasks
           THEN [tasks EXCEPT ![id] = ApplyUpdate(@, progress, st)]
           ELSE tasks
    /\ direct_calls < MaxDirect
    /\ direct_calls' = direct_calls + 1
    /\ UNCHANGED <<task_wrappers, progress_q, call, worker>>
    /\ UNCHANGED nonTMVars

\* Arguments update_progress is called with: any progress a task can hold
\* (its completed count within its total) and any status.
ProgressArgs == UNION {{TaskProgress(t, c, 0) : c \in 0..t} : t \in 0..MaxFiles}
StatusArgs == {Pending, Running, Completed, Failed("direct")}

\* The task manager with the task it runs, without direct update_progress calls.
RunNext ==
    \/ \E id \in TaskIds : AppendInsert(id)
    \/ \E id \in TaskIds : AppendWrapper(id)
    \/ \E c \in Callers : \E id \in TaskIds : StartCheck(c, id)
    \/ \E c \in Callers : StartMark(c)
    \/ \E c \in Callers : StartSpawn(c)
    \/ \E c \in Callers : \E ok \in BOOLEAN : ExecVersionJson(c, ok)
    \/ \E c \in Callers : \E ok \in BOOLEAN : ExecAssetIndex(c, ok)
    \/ \E c \in Callers : \E n \in 0..MaxFiles : ExecCollect(c, n)
    \/ \E c \in Callers : ExecSendInitial(c)
    \/ \E c \in Callers : \E ok \in BOOLEAN : ExecFileDone(c, ok)
    \/ \E c \in Callers : ExecSendFinal(c)
    \/ \E c \in Callers : WorkerFinalize(c)
    \/ ProgressReducer

TMNext ==
    \/ RunNext
    \/ \E id \in TaskIds : \E p \in ProgressArgs : \E st \in StatusArgs :
         UpdateProgress(id, p, st)

\* ------------------------------------------------------------------------
\* Properties of the task registry
\* ------------------------------------------------------------------------

\* The status moves the state machine allows: none, Pending -> Running,
\* Running -> Completed, Running -> Failed.
LegalStatusMove(old, new) ==
    \/ old.tag = new.tag
    \/ old.tag = "Pending" /\ new.tag = "Running"
    \/ old.tag = "Running" /\ new.tag \in {"Completed", "Failed"}

\* C2: in every step, the status of every registered task either stays or
\* moves along Pending -> Running -> (Completed | Failed): it never leaves
\* Completed or Failed, never returns to Pending and never skips Running.
C2_StatusMachine ==
    [][\A id \in DOMAIN tasks :
          LegalStatusMove(tasks[id].status, tasks'[id].status)]_vars

\* C3: a registered task has finished_at set if and only if its status is
\* Completed or Failed.
C3_FinishedIffTerminal ==
    \A id \in DOMAIN tasks : tasks[id].finished_at <=> IsTerminal(tasks[id].status)

\* C4: every registered task whose status is Completed has completed_items
\* equal to total_items.
C4_CompletedMeansAllItems ==
    \A id \in DOMAIN tasks :
        tasks[id].status = Completed =>
            tasks[id].progress.completed = tasks[id].progress.total

\* C14: every registered task whose status is Running, Completed or Failed
\* has started_at set.
C14_StartedAtSet ==
    \A id \in DOMAIN tasks :
        tasks[id].status # Pending => tasks[id].started_at

TerminalReport(id, total_tasks, success_count) ==
    IF success_count = total_tasks
    THEN [task_id |-> id, progress |-> TaskProgress(total_tasks, total_tasks, 0),
          status |-> Completed]
    ELSE [task_id |-> id, progress |-> TaskProgress(total_tasks, success_count, 0),
          status |-> Failed(ToString(total_tasks - success_count) \o "/"
                            \o ToString(total_tasks))]

\* C16: the step in which a planner run leaves the batch sends exactly the
\* terminal update that matches the batch outcome and returns Ok when all
\* downloads succeeded, else the failure message of that update; a terminal
\* update enters the channel only in such a step, and a run that has sent
\* it sends nothing more.
C16_TerminalReport ==
    [][/\ \A c \in DOMAIN worker :
            (worker[c].pc = "batch" /\ worker'[c].pc # "batch") =>
               LET w == worker[c]
                   report == TerminalReport(w.id, w.total, w.ok)
               IN  /\ w.done = w.total
                   /\ progress_q' = Append(progress_q, report)
                   /\ worker'[c].result =
                         IF w.ok = w.total THEN "Ok" ELSE report.status.reason
                   /\ (worker'[c].result = "Ok") <=> (report.status = Completed)
       /\ (Len(progress_q') > Len(progress_q)) =>
            \E c \in DOMAIN worker :
               /\ worker[c].pc \in {"send_init", "batch"}
               /\ worker'[c] # worker[c]
               /\ \A o \in DOMAIN worker \ {c} : worker'[o] = worker[o]
               /\ IsTerminal(progress_q'[Len(progress_q')].status) =>
                     worker'[c].pc = "finalize"]_vars

\* A planner run of two files, one of them failed, has sent its terminal
\* update, which is the newest in the channel.
C16_Witness ==
    \E c \in DOMAIN worker :
        /\ worker[c].pc = "finalize"
        /\ worker[c].total = 2
        /\ worker[c].ok = 1
        /\ progress_q # <<>>
        /\ progress_q[Len(progress_q)] = TerminalReport(worker[c].id, 2, 1)

\* C13: a start_task call that returns an error has spawned no worker and
\* written nothing (the error is decided at the status check, before any
\* write); a call writes Running and started_at only to a task that is
\* Pending at that moment; a call that returns Ok has spawned its worker.
C13_StartTaskContract ==
    [][\A c \in DOMAIN call :
          /\ (call[c].pc # "err" /\ call'[c].pc = "err") =>
                (call[c].pc = "idle" /\ tasks' = tasks /\ worker' = worker)
          /\ (call[c].pc = "checked" /\ call'[c].pc = "marked") =>
                (tasks[call[c].id].status = Pending
                 /\ tasks'[call[c].id].status = Running
                 /\ tasks'[call[c].id].started_at)
          /\ (call[c].pc # "ok" /\ call'[c].pc = "ok") =>
                (worker[c].pc = "none" /\ worker'[c].pc # "none"
                 /\ worker'[c].id = call[c].id)]_vars

\* A step in which download_batch calls the planner's progress callback
\* for worker c: one more file of its batch has succeeded.
ProgressCallback(c) ==
    /\ worker[c].pc = "batch"
    /\ worker'[c].pc = "batch"
    /\ worker'[c].ok = worker[c].ok + 1

ExecOutcome(c) ==
    IF worker[c].result = "Ok" THEN Completed ELSE Failed(worker[c].result)

\* The progress channel holds an update for task id.
QueuedFor(id) == \E i \in DOMAIN progress_q : progress_q[i].task_id = id

\* C33: for every task accepted by start_task, once execute has finished
\* (the worker has made its final write) and the progress channel holds no
\* update for the task, the registry status is the outcome of execute,
\* Completed for Ok and Failed(reason) for Err(reason), and finished_at is set.
C33_FinalStatusIsOutcome ==
    \A c \in DOMAIN worker :
        (worker[c].pc = "done" /\ ~QueuedFor(worker[c].id)) =>
            /\ tasks[worker[c].id].status = ExecOutcome(c)
            /\ tasks[worker[c].id].finished_at

\* The same for a task that one start_task call only has accepted.
FinalStatusIfStartedOnce ==
    \A c \in DOMAIN worker :
        (/\ worker[c].pc = "done"
         /\ ~QueuedFor(worker[c].id)
         /\ \A o \in DOMAIN call \ {c} :
               call[o].id # worker[c].id \/ call[o].pc \in {"idle", "err"}) =>
            /\ tasks[worker[c].id].status = ExecOutcome(c)
            /\ tasks[worker[c].id].finished_at

\* The start_task calls on task id that returned Ok.
StartedOk(id) == {c \in DOMAIN call : call[c].id = id /\ call[c].pc = "ok"}

\* The workers that were spawned for task id, each invoking execute once.
WorkersOf(id) == {c \in DOMAIN worker : worker[c].id = id /\ worker[c].pc # "none"}

\* C34: of any number of concurrent start_task(id) calls on one Pending
\* task at most one returns Ok, and execute is invoked at most once for id.
C34_StartedAtMostOnce ==
    \A id \in TaskIds :
        /\ Cardinality(StartedOk(id)) <= 1
        /\ Cardinality(WorkersOf(id)) <= 1

\* C35: a start_task call that returns an error leaves the registry entry
\* (status, started_at) as it was, also when it runs while append_task is
\* still registering the id, so that no task is Running without a worker:
\* an entry that is no longer Pending, or has started_at set, belongs to a
\* call that is about to spawn its worker or has returned Ok.
C35_ErrorLeavesEntryUntouched ==
    \A id \in DOMAIN tasks :
        (tasks[id].status # Pending \/ tasks[id].started_at) =>
            \E c \in DOMAIN call :
                call[c].id = id /\ call[c].pc \in {"marked", "ok"}

\* ========================================================================
\* The throughput aggregator of TaskManager::new
\* ========================================================================

\* elapsed >= 1.0, in quarter seconds.
CommitDue(elapsed) == elapsed >= 4

\* Quarter seconds between two reads of the clock by the aggregator: the
\* ticker fires every 500 ms, earlier after a late tick, later under load.
TickGaps == 0..4

\* A plausible slip: the accumulator kept across a commit.
AfterDrainKept(acc) == acc

\* bytes_accumulated.drain() leaves the map empty.
AfterDrain(acc) == <<>>

\* while let Ok((task_id, bytes)) = speed_rx.try_recv():
\* *bytes_accumulated.entry(task_id).or_insert(0) += bytes
RECURSIVE DrainChannel(_, _)
DrainChannel(acc, q) ==
    IF q = <<>> THEN acc
    ELSE LET m == Head(q)
         IN  DrainChannel(IF m.task_id \in DOMAIN acc
                            THEN [acc EXCEPT ![m.task_id] = @ + m.bytes]
                            ELSE acc @@ (m.task_id :> m.bytes),
                          Tail(q))

\* The commit: for every drained (task_id, bytes) whose task is registered,
\* task.progress.downloaded_bytes += bytes.
CommitBytes(reg, acc) ==
    [id \in DOMAIN reg |->
        IF id \in DOMAIN acc
          THEN [reg[id] EXCEPT !.progress.downloaded_bytes = @ + acc[id]]
          ELSE reg[id]]

AggInit ==
    /\ speed_q = <<>>
    /\ bytes_accumulated = <<>>
    /\ agg_now = 0
    /\ last_update = 0
    /\ speed_sent = [id \in TaskIds |-> 0]
    /\ speed_early = [id \in TaskIds |-> 0]

AggIdle ==
    /\ speed_q = <<>>
    /\ bytes_accumulated = <<>>
    /\ agg_now = 0
    /\ last_update = 0
    /\ speed_sent = <<>>
    /\ speed_early = <<>>

\* Bytes accepted on the speed channel so far.
AcceptedBytes ==
    LET RECURSIVE Sum(_)
        Sum(S) == IF S = {} THEN 0
                  ELSE LET id == CHOOSE x \in S : TRUE
                       IN  speed_sent[id] + speed_early[id] + Sum(S \ {id})
    IN  Sum(TaskIds)

\* A holder of get_speed_sender() sends (task_id, bytes) and the channel
\* (capacity 1000) accepts it.
SpeedSend(id, bytes) ==
    /\ AcceptedBytes + bytes <= MaxBytes
    /\ speed_q' = Append(speed_q, [task_id |-> id, bytes |-> bytes])
    /\ IF id \in DOMAIN tasks
         THEN speed_sent' = [speed_sent EXCEPT ![id] = @ + bytes]
              /\ UNCHANGED speed_early
         ELSE speed_early' = [speed_early EXCEPT ![id] = @ + bytes]
              /\ UNCHANGED speed_sent
    /\ UNCHANGED <<bytes_accumulated, agg_now, last_update>>
    /\ UNCHANGED tmVars
    /\ UNCHANGED nonAggVars

\* One iteration of the aggregator's loop: the tick, the drain of the
\* channel, the read of the clock and, when a second has passed, the commit.
AggTick(dt) ==
    /\ agg_now + dt <= MaxClock
    /\ LET acc == DrainChannel(bytes_accumulated, speed_q)
           now == agg_now + dt
           elapsed == now - last_update
       IN  /\ speed_q' = <<>>
           /\ agg_now' = now
           /\ IF CommitDue(elapsed)
                THEN /\ tasks' = CommitBytes(tasks, acc)
                     /\ bytes_accumulated' = AfterDrain(acc)
                     /\ last_update' = now
                ELSE /\ bytes_accumulated' = acc
                     /\ UNCHANGED <<tasks, last_update>>
    /\ UNCHANGED <<speed_sent, speed_early>>
    /\ UNCHANGED <<task_wrappers, progress_q, call, worker, direct_calls>>
    /\ UNCHANGED nonAggVars

\* The aggregator with its senders and append_task's insert.
AggNext ==
    \/ \E id \in TaskIds : AppendInsert(id)
    \/ \E id \in TaskIds : \E bytes \in 1..MaxDelta : SpeedSend(id, bytes)
    \/ \E dt \in TickGaps : AggTick(dt)

\* One task registered, started by one start_task call and run by its
\* worker, with the reducer and the aggregator at work.
BytesNext ==
    \/ \E id \in TaskIds : AppendInsert(id)
    \/ \E id \in TaskIds : AppendWrapper(id)
    \/ \E id \in TaskIds : StartCheck(1, id)
    \/ StartMark(1)
    \/ StartSpawn(1)
    \/ \E ok \in BOOLEAN : ExecVersionJson(1, ok)
    \/ \E ok \in BOOLEAN : ExecAssetIndex(1, ok)
    \/ \E n \in 0..MaxFiles : ExecCollect(1, n)
    \/ ExecSendInitial(1)
    \/ \E ok \in BOOLEAN : ExecFileDone(1, ok)
    \/ ExecSendFinal(1)
    \/ WorkerFinalize(1)
    \/ ProgressReducer
    \/ \E id \in TaskIds : \E bytes \in 1..MaxDelta : SpeedSend(id, bytes)
    \/ \E dt \in TickGaps : AggTick(dt)

\* ------------------------------------------------------------------------
\* Properties of the throughput aggregator
\* ------------------------------------------------------------------------

\* Bytes of id drained into the accumulator and not yet committed.
Accumulated(id) == IF id \in DOMAIN bytes_accumulated THEN bytes_accumulated[id] ELSE 0

\* Bytes of id accepted on the channel and not yet drained.
RECURSIVE QueuedBytes(_, _)
QueuedBytes(q, id) ==
    IF q = <<>> THEN 0
    ELSE (IF Head(q).task_id = id THEN Head(q).bytes ELSE 0) + QueuedBytes(Tail(q), id)

\* Bytes of id that are committed, accumulated or queued.
Accounted(id) ==
    tasks[id].progress.downloaded_bytes + Accumulated(id) + QueuedBytes(speed_q, id)

\* Every byte accepted for a registered task is counted once and no byte
\* twice; a tick at which a second had passed has committed.
AggAccounting ==
    /\ \A id \in DOMAIN tasks :
          /\ speed_sent[id] <= Accounted(id)
          /\ Accounted(id) <= speed_sent[id] + speed_early[id]
    /\ ~CommitDue(agg_now - last_update)

\* A commit empties the accumulator, resets the interval clock and adds all
\* that was drained; a step that is no commit leaves downloaded_bytes alone.
AggCommitStep ==
    \A id \in DOMAIN tasks :
        IF last_update' # last_update
          THEN /\ bytes_accumulated' = <<>>
               /\ last_update' = agg_now'
               /\ tasks'[id].progress.downloaded_bytes =
                      tasks[id].progress.downloaded_bytes
                        + Accumulated(id) + QueuedBytes(speed_q, id)
          ELSE id \in DOMAIN tasks' /\
               tasks'[id].progress.downloaded_bytes = tasks[id].progress.downloaded_bytes

\* C39: downloaded_bytes of a registered task never decreases: what the
\* aggregator has committed is not reduced or reset by a progress update
\* the reducer applies.
C39_DownloadedBytesMonotone ==
    [][\A id \in DOMAIN tasks :
          tasks'[id].progress.downloaded_bytes >= tasks[id].progress.downloaded_bytes
      ]_vars

\* C31: every delta accepted on the speed channel for a registered task is
\* added to that task's downloaded_bytes exactly once, at the first commit
\* (a tick at which at least 1000 ms have passed since the previous commit)
\* after it was drained; each commit empties the accumulator and resets the
\* interval clock, bytes or no bytes, and between commits the aggregator
\* leaves downloaded_bytes unchanged.
C31_AggregatorAccounting == []AggAccounting /\ [][AggCommitStep]_vars

\* Two commits at least have happened, and all bytes accepted for task 1 are
\* in its downloaded_bytes.
C31_Witness ==
    /\ 1 \in DOMAIN tasks
    /\ speed_sent[1] >= 2
    /\ tasks[1].progress.downloaded_bytes = speed_sent[1]
    /\ last_update >= 8

\* ========================================================================
\* The guards the task manager and the manifest cache take
\* ========================================================================

\* One step of an operation's code, as far as locks and await points go:
\*   lock / unlock   a blocking guard is taken (the thread waits for it) / dropped
\*   await           an await point: the operation is suspended, then polled again
\*   alock / aunlock the await on the wrapper table's async lock / its guard dropped
\*   exit            a return the operation may take here
\*   goto            the loop starts over
Step(k, l) == [k |-> k, l |-> l]

\* Entry guards of the concurrent map (get: shared, get_mut and insert:
\* exclusive) and the manifest-cache mutex block the thread; the wrapper
\* table's lock is an async one.
BlockingLocks == {"entry_r", "entry_w", "cache"}

\* Two guards that cannot be held at once by different holders.
Conflict(a, b) ==
    \/ a = "cache" /\ b = "cache"
    \/ {a, b} \subseteq {"entry_r", "entry_w"} /\ "entry_w" \in {a, b}
    \/ {a, b} \subseteq {"wrappers_r", "wrappers_w"} /\ "wrappers_w" \in {a, b}

\* append_task: tasks.insert(..); task_wrappers.write().await.insert(..).
AppendTaskCode ==
    <<Step("await", "call"),
      Step("lock", "entry_w"), Step("unlock", "entry_w"),
      Step("alock", "wrappers_w"), Step("aunlock", "wrappers_w")>>

\* A plausible slip: the block around get_mut left out, so that the guard
\* lives until start_task returns.
StartTaskCodeGuardKept ==
    <<Step("await", "call"),
      Step("lock", "entry_r"), Step("unlock", "entry_r"), Step("exit", ""),
      Step("lock", "entry_w"),
      Step("alock", "wrappers_r"), Step("aunlock", "wrappers_r"),
      Step("unlock", "entry_w")>>

\* start_task: tasks.get(..).clone(); the status check; the block with
\* get_mut; the block with task_wrappers.read().await; tokio::spawn.
StartTaskCode ==
    <<Step("await", "call"),
      Step("lock", "entry_r"), Step("unlock", "entry_r"), Step("exit", ""),
      Step("lock", "entry_w"), Step("unlock", "entry_w"),
      Step("alock", "wrappers_r"), Step("aunlock", "wrappers_r")>>

\* The spawned worker: execute(..).await (network calls, sends on the
\* progress channel), then the final write under get_mut.
WorkerCode ==
    <<Step("await", "spawn"), Step("await", "execute"),
      Step("lock", "entry_w"), Step("unlock", "entry_w")>>

\* The reducer: progress_rx.recv().await, then the write under get_mut.
ReducerCode ==
    <<Step("await", "recv"),
      Step("lock", "entry_w"), Step("unlock", "entry_w"), Step("goto", "")>>

\* The aggregator: ticker.tick().await, try_recv, then the commit under get_mut.
AggregatorCode ==
    <<Step("await", "tick"),
      Step("lock", "entry_w"), Step("unlock", "entry_w"), Step("goto", "")>>

\* get_task_info and get_all_tasks: a clone under the shared guard.
QueryCode ==
    <<Step("await", "call"), Step("lock", "entry_r"), Step("unlock", "entry_r")>>

\* get_version_list: the cache lookup under the mutex, loader.execute(..).await,
\* the cache insert under the mutex.
GetVersionListCode ==
    <<Step("await", "call"),
      Step("lock", "cache"), Step("unlock", "cache"), Step("exit", ""),
      Step("await", "execute"),
      Step("lock", "cache"), Step("unlock", "cache")>>

LockProcs ==
    {"append_task", "start_task", "worker", "reducer", "aggregator", "query",
     "get_version_list", "get_version_list_2"}

Code(p) ==
    CASE p = "append_task" -> AppendTaskCode
      [] p = "start_task" -> StartTaskCode
      [] p = "worker" -> WorkerCode
      [] p = "reducer" -> ReducerCode
      [] p = "aggregator" -> AggregatorCode
      [] p = "query" -> QueryCode
      [] OTHER -> GetVersionListCode

LockInit ==
    /\ l_threads \in 1..MaxThreads
    /\ l_pc = [p \in LockProcs |-> 1]
    /\ l_run = {}
    /\ l_held = [p \in LockProcs |-> {}]

LockIdle ==
    /\ l_threads = 0
    /\ l_pc = <<>>
    /\ l_run = {}
    /\ l_held = <<>>

\* The operation has returned: past its last step, or one further after an
\* early return.
HasReturned(p) == l_pc[p] > Len(Code(p))

\* The step the operation is at.
At(p) == Code(p)[l_pc[p]]

\* No other operation holds a guard that excludes guard l.
Free(p, l) ==
    \A q \in LockProcs \ {p} : \A h \in l_held[q] : ~Conflict(l, h)

\* The operation occupies a thread and waits there for a blocking guard.
Blocked(p) ==
    /\ p \in l_run
    /\ ~HasReturned(p)
    /\ At(p).k = "lock"
    /\ ~Free(p, At(p).l)

\* The runtime polls a suspended operation whose await is ready: a thread is
\* free and, for the wrapper table's lock, the lock can be had.  The worker
\* exists once start_task has spawned it.
Poll(p) ==
    /\ p \notin l_run
    /\ ~HasReturned(p)
    /\ Cardinality(l_run) < l_threads
    /\ At(p).k \in {"await", "alock"}
    /\ At(p).l = "spawn" => l_pc["start_task"] = Len(Code("start_task")) + 1
    /\ At(p).k = "alock" => Free(p, At(p).l)
    /\ l_run' = l_run \cup {p}
    /\ l_pc' = [l_pc EXCEPT ![p] = @ + 1]
    /\ l_held' = IF At(p).k = "alock"
                   THEN [l_held EXCEPT ![p] = @ \cup {At(p).l}]
                   ELSE l_held
    /\ UNCHANGED l_threads
    /\ UNCHANGED nonLockVars

\* The operation runs on its thread up to its next step: it takes a guard
\* that is free, drops one, loops, reaches an await point and is suspended,
\* or returns.
Run(p, leave) ==
    /\ p \in l_run
    /\ IF HasReturned(p)
         THEN /\ l_run' = l_run \ {p}
              /\ UNCHANGED <<l_pc, l_held>>
         ELSE CASE At(p).k = "lock" ->
                     /\ Free(p, At(p).l)
                     /\ l_held' = [l_held EXCEPT ![p] = @ \cup {At(p).l}]
                     /\ l_pc' = [l_pc EXCEPT ![p] = @ + 1]
                     /\ UNCHANGED l_run
                [] At(p).k \in {"unlock", "aunlock"} ->
                     /\ l_held' = [l_held EXCEPT ![p] = @ \ {At(p).l}]
                     /\ l_pc' = [l_pc EXCEPT ![p] = @ + 1]
                     /\ UNCHANGED l_run
                [] At(p).k = "exit" ->
                     /\ l_pc' = [l_pc EXCEPT ![p] =
                                   IF leave THEN Len(Code(p)) + 2 ELSE @ + 1]
                     /\ UNCHANGED <<l_run, l_held>>
                [] At(p).k = "goto" ->
                     /\ l_pc' = [l_pc EXCEPT ![p] = 1]
                     /\ UNCHANGED <<l_run, l_held>>
                [] OTHER ->
                     /\ l_run' = l_run \ {p}
                     /\ UNCHANGED <<l_pc, l_held>>
    /\ UNCHANGED l_threads
    /\ UNCHANGED nonLockVars

LockNext ==
    \/ \E p \in LockProcs : Poll(p)
    \/ \E p \in LockProcs : \E leave \in BOOLEAN : Run(p, leave)

\* C32: no operation of the task manager or of the manifest cache holds a
\* blocking guard (an entry guard of the concurrent map, the manifest-cache
\* mutex) while it is suspended at an await point, and so no interleaving
\* deadlocks: an operation that waits for a guard holds none itself, and the
\* guard it waits for is held by an operation that is running and not waiting.
C32_NoGuardAcrossAwait ==
    /\ \A p \in LockProcs \ l_run : l_held[p] \cap BlockingLocks = {}
    /\ \A p \in l_run :
          Blocked(p) =>
            /\ l_held[p] = {}
            /\ \E q \in l_run \ {p} :
                  /\ \E h \in l_held[q] : Conflict(At(p).l, h)
                  /\ ~Blocked(q)

\* start_task waits on its thread for the entry guard while the reducer
\* holds it, and append_task is suspended at the wrapper table's lock.
C32_Witness ==
    /\ Blocked("start_task")
    /\ "entry_w" \in l_held["reducer"]
    /\ "append_task" \notin l_run
    /\ ~HasReturned("append_task")
    /\ At("append_task").k = "alock"

\* ========================================================================
\* DlClientListLoader::execute, load_official, load_bmclapi, get_version_list
\* ========================================================================

\* .timeout(Duration::from_secs(30)) on each manifest request: the request,
\* body included, ends with a network error after this many seconds.
RequestTimeout == 30

\* versions.len() < 200 is rejected.
MinVersions == 200

\* version_list_source: 0 prefers the mirror, 1 the origin, any other value
\* takes the third branch.
Preferences == {0, 1, 2}

\* A plausible slip: the two branches of the match exchanged.
FirstSourceSwapped(pref) == IF pref = 0 THEN "official" ELSE "bmclapi"

\* The source asked first and the source asked second.
FirstSource(pref) == IF pref = 0 THEN "bmclapi" ELSE "official"
SecondSource(pref) == IF pref = 0 THEN "official" ELSE "bmclapi"

\* The seconds given to timeout(..) around the first and the second load.
FirstBudget(pref) == CASE pref = 0 -> 30 [] pref = 1 -> 5 [] OTHER -> 60
SecondBudget(pref) == CASE pref = 0 -> 90 [] pref = 1 -> 35 [] OTHER -> 120

\* What a source does with one request: after `latency` seconds it fails
\* (kind "neterr": transport error or a body that is not JSON) or answers
\* with a JSON document, which has an array `versions` of length len or has
\* none.  A latency of RequestTimeout or more is a source that stalls.
Latencies == {1, 10, RequestTimeout}
VersionLens == {MinVersions - 1, MinVersions, MinVersions + 1}
Docs == [has_versions : BOOLEAN, len : VersionLens]
Responses == [latency : Latencies, kind : {"neterr", "doc"}, doc : Docs]

NoDoc == [has_versions |-> FALSE, len |-> 0]
Ok(is_official, doc) == [tag |-> "Ok", is_official |-> is_official, value |-> doc]
Err(kind) == [tag |-> kind, is_official |-> FALSE, value |-> NoDoc]
NoResult == [tag |-> "none", is_official |-> FALSE, value |-> NoDoc]

\* A plausible slip: versions.len() <= 200 rejected.
ValidVersionsStrict(doc) == doc.has_versions /\ doc.len > MinVersions

\* The validation of load_official / load_bmclapi.
ValidVersions(doc) == doc.has_versions /\ doc.len >= MinVersions

\* load_official / load_bmclapi: the Result the future resolves to.
LoadResult(src, resp) ==
    IF resp.kind = "neterr" \/ resp.latency >= RequestTimeout
      THEN Err("Network")
      ELSE IF ValidVersions(resp.doc)
             THEN Ok(src = "official", resp.doc)
             ELSE Err("VersionListParse")

\* The second at which the load future resolves.
LoadTime(resp) == IF resp.latency >= RequestTimeout THEN RequestTimeout ELSE resp.latency

\* timeout(budget, load): the outcomes it can produce.  "Elapsed" when the
\* budget runs out before the load resolves, the load's Result when it
\* resolves first; both when the two fall on the same second.
TimeoutOutcomes(budget, src, resp) ==
    (IF LoadTime(resp) >= budget THEN {Err("Elapsed")} ELSE {})
    \cup (IF LoadTime(resp) <= budget THEN {LoadResult(src, resp)} ELSE {})

\* A plausible slip: one cache slot shared by every preference.
cache_key_shared(version_list_source) == 0

\* format!("source_{}", version_list_source): one key per preference value.
cache_key(version_list_source) == version_list_source

NoManCall == [entry |-> "none", force |-> FALSE, pref |-> 0, pc |-> "idle"]

ManInit ==
    /\ m_call = NoManCall
    /\ m_contacted = <<>>
    /\ m_loads = <<>>
    /\ m_first = NoResult
    /\ m_result = NoResult
    /\ version_cache = <<>>

ManIdle == ManInit

\* The call returns `res`; get_version_list stores a successful document
\* under the preference before it returns.
ManReturn(res) ==
    /\ m_result' = res
    /\ m_call' = [m_call EXCEPT !.pc = "done"]
    /\ version_cache' =
         IF m_call.entry = "get_version_list" /\ res.tag = "Ok"
           THEN [k \in DOMAIN version_cache \cup {cache_key(m_call.pref)} |->
                   IF k = cache_key(m_call.pref) THEN res.value ELSE version_cache[k]]
           ELSE version_cache

\* loader.execute(pref) is called directly (as the planner does).
CallExecute(pref) ==
    /\ m_call.pc \in {"idle", "done"}
    /\ m_call' = [entry |-> "execute", force |-> FALSE, pref |-> pref, pc |-> "first"]
    /\ m_contacted' = <<>>
    /\ m_loads' = <<>>
    /\ m_first' = NoResult
    /\ m_result' = NoResult
    /\ UNCHANGED version_cache
    /\ UNCHANGED nonManVars

\* get_version_list(force_refresh, pref): a cached document is returned at
\* once when no refresh is forced; otherwise execute(pref) begins.
CallGetVersionList(force, pref) ==
    /\ m_call.pc \in {"idle", "done"}
    /\ m_contacted' = <<>>
    /\ m_loads' = <<>>
    /\ m_first' = NoResult
    /\ IF ~force /\ cache_key(pref) \in DOMAIN version_cache
         THEN /\ m_call' = [entry |-> "get_version_list", force |-> force,
                            pref |-> pref, pc |-> "done"]
              /\ m_result' = Ok(FALSE, version_cache[cache_key(pref)])
         ELSE /\ m_call' = [entry |-> "get_version_list", force |-> force,
                            pref |-> pref, pc |-> "first"]
              /\ m_result' = NoResult
    /\ UNCHANGED version_cache
    /\ UNCHANGED nonManVars

\* execute: the first source's attempt.  `if let Ok(result) = timeout(..)`:
\* whatever the load resolved to within the budget is returned, Ok or Err;
\* only an elapsed budget goes on to the second source.
ExecuteFirst(resp, out) ==
    /\ m_call.pc = "first"
    /\ out \in TimeoutOutcomes(FirstBudget(m_call.pref), FirstSource(m_call.pref), resp)
    /\ m_contacted' = Append(m_contacted, FirstSource(m_call.pref))
    /\ m_loads' = Append(m_loads, [src |-> FirstSource(m_call.pref), resp |-> resp, out |-> out])
    /\ m_first' = out
    /\ IF out.tag = "Elapsed"
         THEN /\ m_call' = [m_call EXCEPT !.pc = "second"]
              /\ UNCHANGED <<m_result, version_cache>>
         ELSE ManReturn(out)
    /\ UNCHANGED nonManVars

\* execute: the second source's attempt; an elapsed budget is Err(Timeout),
\* anything else is the load's own Result.
ExecuteSecond(resp, out) ==
    /\ m_call.pc = "second"
    /\ out \in TimeoutOutcomes(SecondBudget(m_call.pref), SecondSource(m_call.pref), resp)
    /\ m_contacted' = Append(m_contacted, SecondSource(m_call.pref))
    /\ m_loads' = Append(m_loads, [src |-> SecondSource(m_call.pref), resp |-> resp, out |-> out])
    /\ ManReturn(IF out.tag = "Elapsed" THEN Err("Timeout") ELSE out)
    /\ UNCHANGED m_first
    /\ UNCHANGED nonManVars

\* Every outcome a timeout(..) can have, for the quantifiers of ManNext.
Outcomes ==
    {Err("Elapsed"), Err("Network"), Err("VersionListParse")}
    \cup {Ok(o, d) : o \in BOOLEAN, d \in Docs}

ManNext ==
    \/ \E pref \in Preferences : CallExecute(pref)
    \/ \E force \in BOOLEAN : \E pref \in Preferences : CallGetVersionList(force, pref)
    \/ \E resp \in Responses : \E out \in Outcomes : ExecuteFirst(resp, out)
    \/ \E resp \in Responses : \E out \in Outcomes : ExecuteSecond(resp, out)

\* ------------------------------------------------------------------------
\* Properties of the manifest loader
\* ------------------------------------------------------------------------

\* C5: whenever a run of execute has returned and its first source's attempt
\* did not succeed, the alternate source was attempted too (for every kind
\* of failure of the first source).
C5_FallbackOnAnyFailure ==
    (m_call.pc = "done" /\ m_first.tag \notin {"none", "Ok"}) =>
        m_contacted = <<FirstSource(m_call.pref), SecondSource(m_call.pref)>>

\* A run has returned after both sources were contacted and neither gave
\* a manifest.
BothSourcesFailed ==
    /\ m_call.pc = "done"
    /\ Len(m_contacted) = 2
    /\ m_first.tag \notin {"none", "Ok"}
    /\ m_result.tag # "Ok"

\* C17: when the first and the alternate source have both failed, the run
\* returns the Timeout error, whatever the kind of each failure.
C17_BothFailIsTimeout ==
    BothSourcesFailed => m_result.tag = "Timeout"

\* The load of the i-th contacted source resolved within the budget after
\* the source answered with a JSON document.
Answered(i) ==
    /\ m_loads[i].out.tag # "Elapsed"
    /\ m_loads[i].resp.kind = "doc"
    /\ m_loads[i].resp.latency < RequestTimeout

\* C19: a manifest is accepted exactly when it has an array `versions` of
\* at least 200 elements; a document without the array or with 199 elements
\* is the parse error, one with 200 is returned as it was received; the
\* loader of the origin and the loader of the mirror decide alike.
C19_AcceptedIffLongEnough ==
    \A i \in 1..Len(m_loads) :
        Answered(i) =>
            IF m_loads[i].resp.doc.has_versions /\ m_loads[i].resp.doc.len >= 200
              THEN m_loads[i].out = Ok(m_loads[i].src = "official", m_loads[i].resp.doc)
              ELSE m_loads[i].out = Err("VersionListParse")

\* The mirror, asked as the alternate source, answered with exactly 200
\* versions and was accepted, after the origin had been asked first.
C19_Witness ==
    /\ Len(m_loads) = 2
    /\ m_loads[2].src = "bmclapi"
    /\ Answered(2)
    /\ m_loads[2].resp.doc = [has_versions |-> TRUE, len |-> 200]
    /\ m_loads[2].out.tag = "Ok"
    /\ m_result = m_loads[2].out

\* The first source of the returned run answered within its budget with a
\* manifest of at least 200 versions.
FirstSourceValid ==
    /\ m_call.pc = "done"
    /\ Len(m_loads) >= 1
    /\ Answered(1)
    /\ m_loads[1].resp.doc.has_versions
    /\ m_loads[1].resp.doc.len >= 200

\* C20: when the first source (the mirror under preference 0, the origin
\* otherwise) answers with a valid manifest within its budget, the run
\* returns that manifest, is_official tells which source answered (false for
\* the mirror, true for the origin), and the alternate source is never
\* contacted.
C20_FirstSourceWins ==
    FirstSourceValid =>
        LET first == IF m_call.pref = 0 THEN "bmclapi" ELSE "official" IN
        /\ m_loads[1].src = first
        /\ m_result = Ok(first = "official", m_loads[1].resp.doc)
        /\ m_contacted = <<first>>
        /\ Len(m_loads) = 1

\* execute(1) has returned the origin's manifest, marked as from the origin,
\* after asking the origin alone.
C20_Witness ==
    /\ FirstSourceValid
    /\ m_call.entry = "execute"
    /\ m_call.pref = 1
    /\ m_result.tag = "Ok"
    /\ m_result.is_official
    /\ m_contacted = <<"official">>

\* A step that begins get_version_list(false, p).
NonForcedCall(p) ==
    /\ m_call.pc \in {"idle", "done"}
    /\ m_call'.entry = "get_version_list"
    /\ ~m_call'.force
    /\ m_call'.pref = p

\* A step in which a load begun by get_version_list returns.
LoadReturns ==
    /\ m_call.entry = "get_version_list"
    /\ m_call.pc \in {"first", "second"}
    /\ m_call'.pc = "done"

None == <<>>

Some(x) == <<x>>

Schemes == {"https://", "http://"}

OfficialHosts ==
    {"launchermeta.mojang.com", "launcher.mojang.com",
     "resources.download.minecraft.net", "libraries.minecraft.net"}

MirrorHost == "bmclapi2.bangbang93.com"

Hosts == OfficialHosts \cup {MirrorHost, "download.mcbbs.net", "example.com"}

Url(scheme, host, path) == <<scheme, host>> \o path

\* The URLs a version JSON may carry.
InputUrls == {Url(s, h, <<"/f">>) : s \in Schemes, h \in Hosts}

\* The parts that have the needle as a substring.
Bearing(needle) ==
    CASE needle = "bmclapi" -> {MirrorHost}
      [] needle = "mcbbs" -> {"download.mcbbs.net"}
      [] OTHER -> {needle}

\* str::contains
Contains(url, needle) == \E i \in DOMAIN url : url[i] \in Bearing(needle)

\* str::replace: every occurrence of the pattern, left to right, without
\* overlap.
RECURSIVE Replace(_, _, _)
Replace(url, from, to) ==
    IF Len(url) < Len(from)
    THEN url
    ELSE IF SubSeq(url, 1, Len(from)) = from
    THEN to \o Replace(SubSeq(url, Len(from) + 1, Len(url)), from, to)
    ELSE <<Head(url)>> \o Replace(Tail(url), from, to)

MirrorRoot == <<"https://", MirrorHost>>

dl_source_launcher_or_meta_get(original_url) ==
    LET mirror_url ==
            IF Contains(original_url, "launchermeta.mojang.com")
            THEN Replace(original_url, <<"https://", "launchermeta.mojang.com">>, MirrorRoot)
            ELSE IF Contains(original_url, "launcher.mojang.com")
            THEN Replace(original_url, <<"https://", "launcher.mojang.com">>, MirrorRoot)
            ELSE IF Contains(original_url, "resources.download.minecraft.net")
            THEN Replace(original_url, <<"https://", "resources.download.minecraft.net">>,
                         MirrorRoot \o <<"/assets">>)
            ELSE IF Contains(original_url, "libraries.minecraft.net")
            THEN Replace(original_url, <<"https://", "libraries.minecraft.net">>,
                         MirrorRoot \o <<"/maven">>)
            ELSE original_url
    IN  <<original_url>> \o
        (IF /\ ~Contains(original_url, "bmclapi")
            /\ ~Contains(original_url, "mcbbs")
            /\ mirror_url # original_url
         THEN <<mirror_url>>
         ELSE <<>>)

\* The strings dl_source_launcher_or_meta_get may be given: a URL of a known
\* or unknown host, its path possibly carrying a host name or a whole URL
\* (a redirect target, a proxied address).
RouteInputs ==
    {Url(s, h, <<"/f">>) : s \in Schemes, h \in Hosts}
    \cup {Url(s, h, <<"/f", h2>>) : s \in Schemes, h \in Hosts, h2 \in Hosts}
    \cup {Url(s, h, <<"/f", "https://", h2>>) : s \in Schemes, h \in Hosts, h2 \in Hosts}

RouteIdle ==
    /\ r_pc = "idle"
    /\ r_url = <<>>
    /\ r_urls = <<>>

RouteInit ==
    /\ r_pc = "called"
    /\ r_url \in RouteInputs
    /\ r_urls = <<>>

\* The call runs and returns its Vec.
Route ==
    /\ r_pc = "called"
    /\ r_urls' = dl_source_launcher_or_meta_get(r_url)
    /\ r_pc' = "returned"
    /\ UNCHANGED r_url
    /\ UNCHANGED nonRouteVars

RouteNext == Route

\* The table of the router: authoritative prefix -> mirror prefix.
RouteTable ==
    << [from |-> <<"https://", "launchermeta.mojang.com">>, to |-> MirrorRoot],
       [from |-> <<"https://", "launcher.mojang.com">>, to |-> MirrorRoot],
       [from |-> <<"https://", "resources.download.minecraft.net">>,
        to |-> MirrorRoot \o <<"/assets">>],
       [from |-> <<"https://", "libraries.minecraft.net">>,
        to |-> MirrorRoot \o <<"/maven">>] >>

BeginsWith(url, prefix) ==
    Len(url) >= Len(prefix) /\ SubSeq(url, 1, Len(prefix)) = prefix

IsMirrorUrl(url) == Contains(url, "bmclapi") \/ Contains(url, "mcbbs")

IsOfficialUrl(url) == ~IsMirrorUrl(url)

separate_urls(urls) == <<SelectSeq(urls, IsOfficialUrl), SelectSeq(urls, IsMirrorUrl)>>

\* DownloadTask::new
DownloadTaskNew(official_urls, mirror_urls, local_path) ==
    [official_urls |-> official_urls, mirror_urls |-> mirror_urls,
     local_path |-> local_path, file_size |-> None, sha1 |-> None]

Strategies == {"Hybrid", "OfficialOnly", "MirrorOnly"}

\* A plausible slip: the strategy ignored, every URL of the task listed.
get_urls_any_strategy(task, strategy) == task.official_urls \o task.mirror_urls

\* A plausible slip: Hybrid listing the mirrors first.
get_urls_mirror_first(task, strategy) ==
    CASE strategy = "Hybrid" -> task.mirror_urls \o task.official_urls
      [] strategy = "OfficialOnly" -> task.official_urls
      [] strategy = "MirrorOnly" -> task.mirror_urls

get_urls_by_strategy(task, strategy) ==
    CASE strategy = "Hybrid" -> task.official_urls \o task.mirror_urls
      [] strategy = "OfficialOnly" -> task.official_urls
      [] strategy = "MirrorOnly" -> task.mirror_urls

\* FileChecker, as far as the planner fills it.
FileChecker(hash, actual_size) == [hash |-> hash, actual_size |-> actual_size]

NetFile(urls, local_path, checker) ==
    [urls |-> urls, local_path |-> local_path, checker |-> checker]

create_download_task(file) ==
    LET sep == separate_urls(file.urls)
    IN  DownloadTaskNew(sep[1], sep[2], file.local_path)

\* downloads.client and libraries[i].downloads.artifact of a version JSON
Artifact(url) == [url |-> url, sha1 |-> "sha1", size |-> 1]

\* dl_client_jar_get(instance, false)
dl_client_jar_get(client) ==
    NetFile(dl_source_launcher_or_meta_get(client.url), "jar",
            FileChecker(Some(client.sha1), Some(client.size)))

\* dl_client_asset_index_get, for a non-empty url
dl_client_asset_index_get(url) ==
    NetFile(dl_source_launcher_or_meta_get(url), "index", FileChecker(None, None))

\* One library of mc_lib_net_files_from_instance
LibNetFile(artifact) ==
    NetFile(<<artifact.url>>, "library",
            FileChecker(Some(artifact.sha1), Some(artifact.size)))

\* One object of collect_asset_tasks
AssetTask(hash) ==
    DownloadTaskNew(<<Url("https://", "resources.download.minecraft.net", <<hash>>)>>,
                    <<MirrorRoot \o <<"/assets", hash>>>>,
                    hash)

AssetUrl(hash) == Url("https://", "resources.download.minecraft.net", <<hash>>)

RECURSIVE MapSeq(_, _)
MapSeq(Op(_), s) == IF s = <<>> THEN <<>> ELSE <<Op(Head(s))>> \o MapSeq(Op, Tail(s))

SeqsUpTo(S, n) == UNION {[1..k -> S] : k \in 0..n}

AssetHashes == {"/h1", "/h2"}

\* The version JSONs: the jar may be missing, the index url may be missing
\* or empty.
VersionJsons ==
    [jar : {None} \cup {Some(Artifact(u)) : u \in InputUrls},
     index_url : {<<>>} \cup InputUrls,
     libraries : SeqsUpTo({Artifact(u) : u \in InputUrls}, MaxLibs)]

PlanInit ==
    /\ p_pc = "index"
    /\ p_json \in VersionJsons
    /\ index_task = None
    /\ all_tasks = <<>>
    /\ p_origin = <<>>

PlanIdle ==
    /\ p_pc = "idle"
    /\ p_json = [jar |-> None, index_url |-> <<>>, libraries |-> <<>>]
    /\ index_task = None
    /\ all_tasks = <<>>
    /\ p_origin = <<>>

\* download_asset_index: the index is planned and downloaded on its own.
PlanAssetIndex(ok) ==
    /\ p_pc = "index"
    /\ IF p_json.index_url = <<>>
       THEN /\ p_pc' = "failed"
            /\ UNCHANGED index_task
       ELSE /\ index_task' = create_download_task(dl_client_asset_index_get(p_json.index_url))
            /\ p_pc' = IF ok THEN "jar" ELSE "failed"
    /\ UNCHANGED <<p_json, all_tasks, p_origin>>
    /\ UNCHANGED nonPlanVars

\* 1. the client jar
PlanJar ==
    /\ p_pc = "jar"
    /\ IF p_json.jar = None
       THEN UNCHANGED <<all_tasks, p_origin>>
       ELSE /\ all_tasks' = Append(all_tasks, create_download_task(dl_client_jar_get(p_json.jar[1])))
            /\ p_origin' = Append(p_origin, p_json.jar[1].url)
    /\ p_pc' = "assets"
    /\ UNCHANGED <<p_json, index_task>>
    /\ UNCHANGED nonPlanVars

\* 2. the objects of the asset index that was downloaded
PlanAssets(hashes) ==
    /\ p_pc = "assets"
    /\ all_tasks' = all_tasks \o MapSeq(AssetTask, hashes)
    /\ p_origin' = p_origin \o MapSeq(AssetUrl, hashes)
    /\ p_pc' = "libraries"
    /\ UNCHANGED <<p_json, index_task>>
    /\ UNCHANGED nonPlanVars

LibTask(artifact) == create_download_task(LibNetFile(artifact))

LibUrl(artifact) == artifact.url

\* 3. the libraries; all_tasks is then handed to download_batch
PlanLibraries ==
    /\ p_pc = "libraries"
    /\ all_tasks' = all_tasks \o MapSeq(LibTask, p_json.libraries)
    /\ p_origin' = p_origin \o MapSeq(LibUrl, p_json.libraries)
    /\ p_pc' = "submitted"
    /\ UNCHANGED <<p_json, index_task>>
    /\ UNCHANGED nonPlanVars

PlanNext ==
    \/ \E ok \in BOOLEAN : PlanAssetIndex(ok)
    \/ PlanJar
    \/ \E hashes \in SeqsUpTo(AssetHashes, MaxAssets) : PlanAssets(hashes)
    \/ PlanLibraries

\* A URL with a recognized authoritative prefix.
Recognized(url) == Len(url) >= 2 /\ url[1] = "https://" /\ url[2] \in OfficialHosts

BothSources(task) ==
    /\ task.official_urls # <<>>
    /\ task.mirror_urls # <<>>
    /\ \A s \in Strategies : get_urls_by_strategy(task, s) # <<>>

\* C8: every DownloadTask the planner submits was populated through the
\* source router: when the URL it was planned from has a recognized
\* authoritative prefix, the task has origin URLs and mirror URLs, and its
\* URL list is non-empty under each of the three strategies.
C8_PlannedTasksHaveBothSources ==
    /\ (index_task # None /\ Recognized(p_json.index_url)) => BothSources(index_task)
    /\ \A i \in DOMAIN all_tasks :
           Recognized(p_origin[i]) => BothSources(all_tasks[i])

\* C38: the DownloadTask the planner derives from a NetFile carries the
\* checker's expected size and expected hash: the tasks of the client jar
\* and of every library whose version JSON gives sha1 and size have both
\* set, so that download_file verifies them, skips a matching file and
\* takes the ranged path above the threshold.
C38_TaskCarriesChecker ==
    \A i \in DOMAIN all_tasks :
        LET art == IF all_tasks[i].local_path = "jar"
                     THEN p_json.jar[1]
                     ELSE CHOOSE l \in Range(p_json.libraries) : l.url = p_origin[i]
        IN  all_tasks[i].local_path \in {"jar", "library"} =>
              /\ all_tasks[i].sha1 = Some(art.sha1)
              /\ all_tasks[i].file_size = Some(art.size)

\* ========================================================================
\* download_file (download/downloader.rs)
\* ========================================================================

\* The resource is a sequence of bytes, each position its own value, so
\* that a misplaced or missing byte shows.
Resource(size) == [i \in 1..size |-> i]

\* What a source with altered content serves instead.
Corrupt(content) == [i \in DOMAIN content |-> 0]

\* How the source answers a request it does not fail: "ranged" honours the
\* Range header (206), "full" ignores it and sends the whole body (200),
\* "corrupt" honours it and serves altered bytes.
ServerKinds == {"ranged", "full", "corrupt"}

Served == IF srv.kind = "corrupt" THEN Corrupt(srv.content) ELSE srv.content

\* Body of a GET without Range.
Body == Served

\* Body of a GET with Range: bytes=start-end.
RangeBody(start, end) ==
    IF srv.kind = "full" THEN Served ELSE SubSeq(Served, start + 1, end + 1)

\* The digest of a content; distinct contents have distinct digests.
Sha1(content) == [digest_of |-> content]

HashOk(digest) == [tag |-> "Ok", digest |-> digest]

HashErr == [tag |-> "Err", digest |-> Sha1(<<>>)]

NotComputed == [tag |-> "none", digest |-> Sha1(<<>>)]

\* calculate_sha1: fails when the file cannot be opened or read.
calculate_sha1(file, io_ok) ==
    IF file = None \/ ~io_ok THEN HashErr ELSE HashOk(Sha1(file[1]))

\* A plausible slip: any hash that could be computed passes.
HashMatchesAny(actual, expected) == actual.tag = "Ok"

\* `if let Ok(actual_sha1) = .. { if &actual_sha1 == expected_sha1 {`
HashMatches(actual, expected) == actual = HashOk(expected)

OriginUrl == Url("https://", "libraries.minecraft.net", <<"/f">>)

MirrorUrl == MirrorRoot \o <<"/maven", "/f">>

\* A second mirror (the mcbbs host) serving the same resource.
MirrorUrl2 == Url("https://", "download.mcbbs.net", <<"/maven", "/f">>)

FileUrls == {OriginUrl, MirrorUrl, MirrorUrl2}

RetryBudgets == {1, 3}

Thresholds == {2}

\* The configurations: on the ranged path file_size exceeds the threshold,
\* and the model keeps to configurations where that makes file_size at
\* least the chunk count (as in the default, 5 MiB and 8).
Configs ==
    {c \in [strategy : Strategies, max_retries : RetryBudgets,
            large_file_threshold : Thresholds, large_file_chunks : 2..MaxChunks] :
        c.large_file_chunks <= c.large_file_threshold + 1}

\* The tasks for a resource of the given content.
FileTasks(content) ==
    {[DownloadTaskNew(o, m, "local_path") EXCEPT !.file_size = fsz, !.sha1 = h] :
        o \in {<<>>, <<OriginUrl>>},
        m \in {<<>>, <<MirrorUrl>>, <<MirrorUrl, MirrorUrl2>>},
        fsz \in {None, Some(Len(content))},
        h \in {None, Some(Sha1(content)), Some(Sha1(Corrupt(content)))}}

NoChunks == <<>>

FileInit ==
    /\ \E size \in 1..MaxSize :
        /\ srv \in [content : {Resource(size)}, kind : ServerKinds]
        /\ d_task \in FileTasks(Resource(size))
        /\ fs_file \in {None, Some(Resource(size)), Some(Corrupt(Resource(size)))}
    /\ d_cfg \in Configs
    /\ fs_parts = None
    /\ d_pc = "start"
    /\ d_path = "none"
    /\ d_result = "none"
    /\ requests = [u \in FileUrls |-> 0]
    /\ pre_hash = NotComputed
    /\ d_url_index = 0
    /\ d_attempt = 0
    /\ chunk_w = NoChunks
    /\ d_join = 0
    /\ finish_order = <<>>
    /\ d_merge = 0
    /\ chunk_faults = 0
    /\ d_inflight = 0
    /\ d_hash = NotComputed

FileIdle ==
    /\ srv = [content |-> <<>>, kind |-> "ranged"]
    /\ d_task = DownloadTaskNew(<<>>, <<>>, "local_path")
    /\ d_cfg = [strategy |-> "Hybrid", max_retries |-> 3,
                large_file_threshold |-> 2, large_file_chunks |-> 2]
    /\ fs_file = None
    /\ fs_parts = None
    /\ d_pc = "idle"
    /\ d_path = "none"
    /\ d_result = "none"
    /\ requests = [u \in FileUrls |-> 0]
    /\ pre_hash = NotComputed
    /\ d_url_index = 0
    /\ d_attempt = 0
    /\ chunk_w = NoChunks
    /\ d_join = 0
    /\ finish_order = <<>>
    /\ d_merge = 0
    /\ chunk_faults = 0
    /\ d_inflight = 0
    /\ d_hash = NotComputed

\* task.get_urls_by_strategy(self.config.strategy)
FileUrlList == get_urls_by_strategy(d_task, d_cfg.strategy)

\* task.file_size.unwrap_or(0)
FileSize == IF d_task.file_size = None THEN 0 ELSE d_task.file_size[1]

ChunkCount == d_cfg.large_file_chunks

ChunkSize == FileSize \div ChunkCount

ChunkStart(i) == i * ChunkSize

\* A plausible slip: the last chunk cut like the others.
ChunkEndNoRemainder(i) == (i + 1) * ChunkSize - 1

\* u64 arithmetic on Int: a negative value stands for an unsigned underflow.
ChunkEnd(i) == IF i = ChunkCount - 1 THEN FileSize - 1 ELSE (i + 1) * ChunkSize - 1

\* A plausible slip: the Hybrid case forgotten.
SmallRetriesFlat(url_index) == d_cfg.max_retries

\* Retry budget of the single-stream loop for the URL at url_index.
SmallRetries(url_index) ==
    IF d_cfg.strategy = "Hybrid"
    THEN IF url_index < Len(d_task.official_urls) THEN 2 ELSE d_cfg.max_retries
    ELSE d_cfg.max_retries

\* A plausible slip: the chunk worker given the budget rule of the
\* single-stream loop.
ChunkRetriesAsSmall(url_index) == SmallRetries(url_index)

\* Retry budget of a chunk worker for the URL at url_index.
ChunkRetries(url_index) ==
    IF d_cfg.strategy = "Hybrid"
    THEN IF url_index = 0 THEN 2 ELSE d_cfg.max_retries
    ELSE d_cfg.max_retries

\* A plausible slip: `>=` for `>`.
UseRangedPathAtLeast == FileSize >= d_cfg.large_file_threshold

\* `if file_size > self.config.large_file_threshold`
UseRangedPath == FileSize > d_cfg.large_file_threshold

FileReturn(res) ==
    /\ d_pc' = "done"
    /\ d_result' = res

\* download_file up to the dispatch: the pre-fetch check, the URL list, the
\* choice of path; on the ranged path the part directory is created and the
\* chunk workers are spawned.
DownloadFileEnter(io_ok) ==
    /\ d_pc = "start"
    /\ LET computed == fs_file # None /\ d_task.sha1 # None
           actual == IF computed THEN calculate_sha1(fs_file, io_ok) ELSE NotComputed
       IN
       /\ pre_hash' = actual
       /\ IF computed /\ HashMatches(actual, d_task.sha1[1])
          THEN /\ FileReturn("Ok")
               /\ d_path' = "short"
               /\ UNCHANGED <<fs_parts, chunk_w>>
          ELSE IF FileUrlList = <<>>
          THEN /\ FileReturn("NoSource")
               /\ d_path' = "none"
               /\ UNCHANGED <<fs_parts, chunk_w>>
          ELSE IF UseRangedPath
          THEN /\ d_pc' = "large"
               /\ d_path' = "large"
               /\ fs_parts' = [i \in 0..(ChunkCount - 1) |-> None]
               /\ chunk_w' = [i \in 0..(ChunkCount - 1) |->
                                [st |-> "run", url_index |-> 0, attempt |-> 0,
                                 start |-> ChunkStart(i), end |-> ChunkEnd(i),
                                 sent |-> [k \in DOMAIN FileUrlList |-> 0]]]
               /\ UNCHANGED d_result
          ELSE /\ d_pc' = "small"
               /\ d_path' = "small"
               /\ UNCHANGED <<d_result, fs_parts, chunk_w>>
    /\ UNCHANGED <<d_task, d_cfg, srv, fs_file, requests, d_url_index, d_attempt,
                   d_join, finish_order, d_merge>>
    /\ UNCHANGED <<chunk_faults, d_inflight, d_hash>>
    /\ UNCHANGED nonFileVars

\* A plausible slip: a response written to the file taken as verified.
SmallVerifiedUnchecked(resp_ok, actual) == resp_ok

\* `Ok(()) => { if let Some(expected_sha1) .. if let Ok(actual_sha1) .. ==`:
\* the attempt returns Ok(()) from download_small_file.
SmallVerified(resp_ok, actual) ==
    /\ resp_ok
    /\ \/ d_task.sha1 = None
       \/ HashMatches(actual, d_task.sha1[1])

\* try_download_single: client.get(url).send() of the current round.
SmallSend ==
    /\ d_pc = "small"
    /\ d_inflight = 0
    /\ requests' = [requests EXCEPT ![FileUrlList[d_url_index + 1]] = @ + 1]
    /\ d_inflight' = d_inflight + 1
    /\ UNCHANGED <<d_task, d_cfg, srv, fs_file, fs_parts, d_pc, d_path, d_result,
                   pre_hash, d_url_index, d_attempt, chunk_w, d_join, finish_order,
                   d_merge, chunk_faults, d_hash>>
    /\ UNCHANGED nonFileVars

\* The rest of one round of download_small_file: the response arrives,
\* try_download_single writes it or fails, then the verification and the
\* step of the two loops.
SmallAttempt(resp_ok, io_ok) ==
    /\ d_pc = "small"
    /\ d_inflight > 0
    /\ d_inflight' = d_inflight - 1
    /\ LET written == IF resp_ok THEN Some(Body) ELSE fs_file
           actual == IF resp_ok /\ d_task.sha1 # None
                       THEN calculate_sha1(written, io_ok)
                       ELSE NotComputed
       IN
       /\ fs_file' = written
       /\ d_hash' = actual
       /\ IF SmallVerified(resp_ok, actual)
          THEN /\ FileReturn("Ok")
               /\ UNCHANGED <<d_url_index, d_attempt>>
          ELSE IF d_attempt + 1 < SmallRetries(d_url_index)
          THEN /\ d_attempt' = d_attempt + 1
               /\ UNCHANGED <<d_url_index, d_pc, d_result>>
          ELSE IF d_url_index + 1 < Len(FileUrlList)
          THEN /\ d_url_index' = d_url_index + 1
               /\ d_attempt' = 0
               /\ UNCHANGED <<d_pc, d_result>>
          ELSE /\ FileReturn("AllUrlsFailed")
               /\ UNCHANGED <<d_url_index, d_attempt>>
    /\ UNCHANGED <<d_task, d_cfg, srv, fs_parts, d_path, pre_hash, chunk_w, d_join,
                   finish_order, d_merge, requests>>
    /\ UNCHANGED chunk_faults
    /\ UNCHANGED nonFileVars

\* One attempt of the worker of chunk i: download_chunk, then the step of
\* the worker's two loops.
ChunkAttempt(i, resp_ok) ==
    /\ i \in DOMAIN chunk_w
    /\ chunk_w[i].st = "run"
    /\ resp_ok \/ chunk_faults < MaxChunkFaults
    /\ chunk_faults' = IF resp_ok THEN chunk_faults ELSE chunk_faults + 1
    /\ LET w == chunk_w[i]
           url == FileUrlList[w.url_index + 1]
           sent == [w.sent EXCEPT ![w.url_index + 1] = @ + 1]
       IN
       /\ requests' = [requests EXCEPT ![url] = @ + 1]
       /\ IF resp_ok
          THEN /\ fs_parts' = [fs_parts EXCEPT ![i] = Some(RangeBody(w.start, w.end))]
               /\ chunk_w' = [chunk_w EXCEPT ![i].st = "ok", ![i].sent = sent]
               /\ finish_order' = Append(finish_order, i)
          ELSE /\ UNCHANGED <<fs_parts, finish_order>>
               /\ chunk_w' =
                    IF w.attempt + 1 < ChunkRetries(w.url_index)
                    THEN [chunk_w EXCEPT ![i].attempt = @ + 1, ![i].sent = sent]
                    ELSE IF w.url_index + 1 < Len(FileUrlList)
                    THEN [chunk_w EXCEPT ![i].url_index = @ + 1, ![i].attempt = 0,
                                         ![i].sent = sent]
                    ELSE [chunk_w EXCEPT ![i].st = "err", ![i].sent = sent]
    /\ UNCHANGED <<d_task, d_cfg, srv, fs_file, d_pc, d_path, d_result, pre_hash,
                   d_url_index, d_attempt, d_join, d_merge, d_inflight, d_hash>>
    /\ UNCHANGED nonFileVars

\* A plausible slip: the workers' results dropped (`let _ = handle.await`),
\* the merge following in any case.
JoinChunkLenient ==
    /\ d_pc = "large"
    /\ chunk_w[d_join].st # "run"
    /\ d_join' = d_join + 1
    /\ d_pc' = IF d_join + 1 = ChunkCount THEN "merge" ELSE "large"
    /\ UNCHANGED <<d_task, d_cfg, srv, fs_file, fs_parts, d_path, d_result, requests,
                   pre_hash, d_url_index, d_attempt, chunk_w, finish_order, d_merge,
                   chunk_faults, d_inflight, d_hash>>
    /\ UNCHANGED nonFileVars

\* `for handle in handles { handle.await ..?? }`: the handles are awaited
\* in index order; the first failed worker ends the call.
JoinChunk ==
    /\ d_pc = "large"
    /\ chunk_w[d_join].st # "run"
    /\ IF chunk_w[d_join].st = "err"
       THEN /\ FileReturn("ChunkFailed")
            /\ UNCHANGED d_join
       ELSE /\ d_join' = d_join + 1
            /\ d_pc' = IF d_join + 1 = ChunkCount THEN "merge" ELSE "large"
            /\ UNCHANGED d_result
    /\ UNCHANGED <<d_task, d_cfg, srv, fs_file, fs_parts, d_path, requests, pre_hash,
                   d_url_index, d_attempt, chunk_w, finish_order, d_merge>>
    /\ UNCHANGED <<chunk_faults, d_inflight, d_hash>>
    /\ UNCHANGED nonFileVars

\* A plausible slip: the parts appended from the last to the first.
PartOrderReversed(chunk_count) == [k \in 1..chunk_count |-> chunk_count - k]

\* `for i in 0..chunk_count` of merge_chunks
PartOrder(chunk_count) == [k \in 1..chunk_count |-> k - 1]

RECURSIVE AppendParts(_, _, _)
AppendParts(output, parts, order) ==
    IF order = <<>> THEN output
    ELSE AppendParts(output \o parts[Head(order)][1], parts, Tail(order))

\* What merge_chunks leaves in output_path when every part is appended.
merge_chunks(parts, chunk_count) == AppendParts(<<>>, parts, PartOrder(chunk_count))

\* merge_chunks: File::create(output_path) truncates local_path.
MergeCreate ==
    /\ d_pc = "merge"
    /\ fs_file' = Some(<<>>)
    /\ d_merge' = 0
    /\ d_pc' = "append"
    /\ UNCHANGED <<d_task, d_cfg, srv, fs_parts, d_path, d_result, requests, pre_hash,
                   d_url_index, d_attempt, chunk_w, d_join, finish_order>>
    /\ UNCHANGED <<chunk_faults, d_inflight, d_hash>>
    /\ UNCHANGED nonFileVars

\* merge_chunks: one round of the loop, the next part read and appended; a
\* failed open, read or write ends the call with the error.
MergeAppend(io_ok) ==
    /\ d_pc = "append"
    /\ d_merge < ChunkCount
    /\ IF io_ok
       THEN /\ fs_file' = Some(AppendParts(fs_file[1], fs_parts,
                                           <<PartOrder(ChunkCount)[d_merge + 1]>>))
            /\ d_merge' = d_merge + 1
            /\ UNCHANGED <<d_pc, d_result>>
       ELSE /\ FileReturn("Io")
            /\ UNCHANGED <<fs_file, d_merge>>
    /\ UNCHANGED <<d_task, d_cfg, srv, fs_parts, d_path, requests, pre_hash,
                   d_url_index, d_attempt, chunk_w, d_join, finish_order>>
    /\ UNCHANGED <<chunk_faults, d_inflight, d_hash>>
    /\ UNCHANGED nonFileVars

\* After merge_chunks: remove_dir_all and the verification of the merged
\* file.
MergeChunks(io_ok) ==
    /\ d_pc = "append"
    /\ d_merge = ChunkCount
    /\ LET actual == IF d_task.sha1 # None
                       THEN calculate_sha1(fs_file, io_ok)
                       ELSE NotComputed
       IN
       /\ fs_parts' = None
       /\ d_hash' = actual
       /\ IF d_task.sha1 # None /\ actual.tag = "Ok" /\ actual # HashOk(d_task.sha1[1])
          THEN FileReturn("VerifyFailed")
          ELSE FileReturn("Ok")
    /\ UNCHANGED <<d_task, d_cfg, srv, fs_file, d_path, requests, pre_hash, d_url_index,
                   d_attempt, chunk_w, d_join, finish_order, d_merge>>
    /\ UNCHANGED <<chunk_faults, d_inflight>>
    /\ UNCHANGED nonFileVars

FileNext ==
    \/ \E io_ok \in BOOLEAN : DownloadFileEnter(io_ok)
    \/ SmallSend
    \/ \E resp_ok, io_ok \in BOOLEAN : SmallAttempt(resp_ok, io_ok)
    \/ \E i \in 0..(MaxChunks - 1), resp_ok \in BOOLEAN : ChunkAttempt(i, resp_ok)
    \/ JoinChunk
    \/ MergeCreate
    \/ \E io_ok \in BOOLEAN : MergeAppend(io_ok)
    \/ \E io_ok \in BOOLEAN : MergeChunks(io_ok)

NoRequests == \A u \in FileUrls : requests[u] = 0

\* The existing file's hash was computed and equals the expected hash.
PreCheckHit ==
    /\ fs_file # None
    /\ d_task.sha1 # None
    /\ pre_hash' = HashOk(d_task.sha1[1])

\* C9: when local_path exists and the task's expected hash equals the hash
\* computed of the existing file, download_file returns success in that
\* step, with no HTTP request sent and the file as it was; when the hash
\* differs or no expected hash is set, it does not return success there: it
\* goes on to the URL list and the download.
C9_PreCheckShortCircuit ==
    [][d_pc = "start" =>
         IF PreCheckHit
         THEN d_pc' = "done" /\ d_result' = "Ok" /\ requests' = requests
              /\ NoRequests /\ fs_file' = fs_file /\ fs_parts' = fs_parts
         ELSE /\ d_result' # "Ok"
              /\ \/ d_pc' \in {"small", "large"}
                 \/ FileUrlList = <<>> /\ d_result' = "NoSource"]_vars

\* download_file returned success from the pre-fetch check.
C9_Witness ==
    /\ d_pc = "done"
    /\ d_path = "short"
    /\ d_result = "Ok"
    /\ pre_hash = HashOk(d_task.sha1[1])
    /\ NoRequests
    /\ FileUrlList # <<>>

\* The ranged path ended in success against a source that honours Range
\* and serves a resource of the announced size.
RangedSuccess ==
    /\ d_pc = "done"
    /\ d_path = "large"
    /\ d_result = "Ok"
    /\ srv.kind = "ranged"
    /\ FileSize = Len(srv.content)
    /\ FileSize >= ChunkCount

\* C10: a successful ranged download of a resource of size S >= chunks from
\* a source that honours Range leaves local_path equal to the resource byte
\* for byte, whatever the order in which the chunk workers finished, and the
\* .parts directory is gone.
C10_RangedRoundTrip ==
    RangedSuccess => fs_file = Some(srv.content) /\ fs_parts = None

\* A ranged success in which the last chunk's worker finished first and a
\* worker needed a second attempt.
C10_Witness ==
    /\ RangedSuccess
    /\ Len(finish_order) = ChunkCount
    /\ finish_order[1] = ChunkCount - 1
    /\ ChunkCount = 3
    /\ \E i \in DOMAIN chunk_w : chunk_w[i].attempt > 0 \/ chunk_w[i].url_index > 0

\* Every part file is written.
AllPartsWritten ==
    /\ fs_parts # None
    /\ \A i \in DOMAIN fs_parts : fs_parts[i] # None

\* C11: on the ranged path every step that changes local_path puts the
\* complete concatenation of all parts there: local_path is never seen
\* holding anything between its content before the call and the whole
\* merged file.
C11_MergeAtomic ==
    [][(d_path = "large" /\ fs_file' # fs_file) =>
          (AllPartsWritten /\ fs_file' = Some(merge_chunks(fs_parts, ChunkCount)))]_vars

\* The URLs download_file has sent a request to.
Requested == {u \in FileUrls : requests[u] > 0}

\* The requests follow the list urls in order: where a URL of the list has
\* been requested, the single-stream loop has spent the whole budget of
\* every URL before it, and a chunk worker that stands at a URL has spent
\* its budget for every URL before it.
TriedInListOrder(urls) ==
    /\ d_path = "small" =>
          \A j \in DOMAIN urls : requests[urls[j]] > 0 =>
              \A i \in 1..(j - 1) : requests[urls[i]] = SmallRetries(i - 1)
    /\ d_path = "large" =>
          \A w \in DOMAIN chunk_w : \A i \in 1..chunk_w[w].url_index :
              requests[urls[i]] >= ChunkRetries(i - 1)

\* C12: under MirrorOnly every URL requested is an element of mirror_urls,
\* the elements are tried in list order, all of them when the call ends
\* with every URL failed, and no origin URL is requested; under
\* OfficialOnly no mirror URL is requested.
C12_StrategyRestrictsUrls ==
    /\ d_cfg.strategy = "MirrorOnly" =>
          /\ Requested \subseteq Range(d_task.mirror_urls)
          /\ Requested \cap Range(d_task.official_urls) = {}
          /\ TriedInListOrder(d_task.mirror_urls)
          /\ d_result \in {"AllUrlsFailed", "ChunkFailed"} =>
                Requested = Range(d_task.mirror_urls)
    /\ d_cfg.strategy = "OfficialOnly" =>
          /\ Requested \subseteq Range(d_task.official_urls)
          /\ Requested \cap Range(d_task.mirror_urls) = {}

\* MirrorOnly with two mirrors and an origin URL: the first mirror used up
\* its budget, the second was requested, the origin never.
C12_Witness ==
    /\ d_cfg.strategy = "MirrorOnly"
    /\ d_task.official_urls # <<>>
    /\ Len(d_task.mirror_urls) = 2
    /\ requests[MirrorUrl] = d_cfg.max_retries
    /\ requests[MirrorUrl2] > 0
    /\ d_path = "small"
    /\ d_pc = "done"

\* The attempts the claimed policy grants the k-th URL of the list on the
\* single-stream path (k from 1).
ClaimedSmallBudget(k) ==
    IF d_cfg.strategy = "Hybrid" /\ k <= Len(d_task.official_urls)
    THEN 2
    ELSE d_cfg.max_retries

\* C23: on the single-stream path no URL is requested more often than its
\* budget (2 for an origin URL under Hybrid, max_retries_per_url for a
\* mirror URL under Hybrid and for every URL under the other strategies), a
\* URL is requested only when every URL before it has been requested
\* exactly its budget, and the call fails with "all URLs failed" only when
\* every URL of the list has been requested exactly its budget; the path
\* ends in no other failure.
C23_SmallRetryBudgets ==
    d_path = "small" =>
        /\ \A k \in DOMAIN FileUrlList :
              /\ requests[FileUrlList[k]] <= ClaimedSmallBudget(k)
              /\ requests[FileUrlList[k]] > 0 =>
                    \A j \in 1..(k - 1) :
                        requests[FileUrlList[j]] = ClaimedSmallBudget(j)
        /\ d_pc = "done" => d_result \in {"Ok", "AllUrlsFailed"}
        /\ d_result = "AllUrlsFailed" =>
              \A k \in DOMAIN FileUrlList :
                  requests[FileUrlList[k]] = ClaimedSmallBudget(k)

\* Hybrid with one origin URL and two mirrors, max_retries 3: every attempt
\* failed; the origin was requested twice, each mirror three times.
C23_Witness ==
    /\ d_path = "small"
    /\ d_cfg.strategy = "Hybrid"
    /\ d_cfg.max_retries = 3
    /\ d_result = "AllUrlsFailed"
    /\ requests = (OriginUrl :> 2 @@ MirrorUrl :> 3 @@ MirrorUrl2 :> 3)

\* The attempts the claimed policy grants a chunk worker for the k-th URL
\* of the list (k from 1).
ClaimedChunkBudget(k) ==
    IF d_cfg.strategy = "Hybrid" /\ k = 1 THEN 2 ELSE d_cfg.max_retries

\* C24: a chunk worker requests no URL more often than its budget (2 for
\* the first URL of the list under Hybrid, max_retries_per_url otherwise),
\* requests a URL only after spending the whole budget of every URL before
\* it, sends nothing more once it has a valid response, and fails only
\* with the budget of every URL spent.
C24_ChunkRetryBudgets ==
    [][\A i \in DOMAIN chunk_w' :
          LET w == chunk_w'[i] IN
          /\ \A k \in DOMAIN w.sent :
                /\ w.sent[k] <= ClaimedChunkBudget(k)'
                /\ w.sent[k] > 0 =>
                      \A j \in 1..(k - 1) : w.sent[j] = ClaimedChunkBudget(j)'
          /\ w.st = "err" =>
                \A k \in DOMAIN w.sent : w.sent[k] = ClaimedChunkBudget(k)'
          /\ (i \in DOMAIN chunk_w /\ chunk_w[i].st = "ok") => w = chunk_w[i]
          /\ (i \in DOMAIN chunk_w /\ chunk_w[i].st = "run" /\ w.st = "ok") =>
                /\ fs_parts'[i] # None
                /\ \E k \in DOMAIN w.sent :
                      /\ w.sent[k] = chunk_w[i].sent[k] + 1
                      /\ \A j \in (k + 1)..Len(w.sent) : w.sent[j] = 0
      ]_vars

\* Hybrid with an origin URL and a mirror: a chunk worker has failed after
\* two requests to the origin and max_retries to the mirror.
C24_Witness ==
    /\ d_cfg.strategy = "Hybrid"
    /\ d_task.official_urls = <<OriginUrl>>
    /\ d_task.mirror_urls = <<MirrorUrl>>
    /\ \E i \in DOMAIN chunk_w :
          /\ chunk_w[i].st = "err"
          /\ chunk_w[i].sent = <<2, d_cfg.max_retries>>

\* A step of the single-stream loop in which a response was written and the
\* file's hash was computed and differs from the expected hash.
SmallMismatch ==
    /\ d_pc = "small"
    /\ d_inflight = 1
    /\ d_inflight' = 0
    /\ d_task.sha1 # None
    /\ d_hash'.tag = "Ok"
    /\ d_hash'.digest # d_task.sha1[1]

\* C25: on the single-stream path with an expected hash, a response whose
\* written content does not match is a failed attempt: it takes one unit of
\* the budget of the same URL, after the last unit the loop goes to the next
\* URL, and after the last URL download_file fails; and the path never
\* returns success while the file's hash differs from the expected hash.
C25_MismatchIsFailedAttempt ==
    [][ /\ SmallMismatch =>
             IF d_attempt + 1 < ClaimedSmallBudget(d_url_index + 1)
             THEN /\ d_pc' = "small"
                  /\ d_url_index' = d_url_index
                  /\ d_attempt' = d_attempt + 1
             ELSE IF d_url_index + 1 < Len(FileUrlList)
             THEN /\ d_pc' = "small"
                  /\ d_url_index' = d_url_index + 1
                  /\ d_attempt' = 0
             ELSE /\ d_pc' = "done"
                  /\ d_result' = "AllUrlsFailed"
        /\ (d_path' = "small" /\ d_task.sha1 # None /\ d_result' = "Ok") =>
             /\ fs_file' # None
             /\ Sha1(fs_file'[1]) = d_task.sha1[1]
      ]_vars

\* A source serving altered content to a task with the right expected
\* hash: every response of both URLs of the list was written and failed
\* the verification, and download_file has failed.
C25_Witness ==
    /\ d_path = "small"
    /\ d_result = "AllUrlsFailed"
    /\ srv.kind = "corrupt"
    /\ d_task.sha1 = Some(Sha1(srv.content))
    /\ Len(FileUrlList) = 2
    /\ d_hash.tag = "Ok"
    /\ fs_file = Some(Corrupt(srv.content))
    /\ \A k \in DOMAIN FileUrlList : requests[FileUrlList[k]] = ClaimedSmallBudget(k)

\* C26: with an expected hash set, an error of calculate_sha1 counts like a
\* mismatch wherever the hash is used: in the pre-fetch check the download
\* goes on, in the single-stream verification the attempt has failed, after
\* the merge of a ranged download the call fails with the verification
\* failure; a call that ends on a hashing error never returns success.
C26_HashErrorIsMismatch ==
    /\ pre_hash = HashErr => d_path # "short"
    /\ (d_pc = "done" /\ d_path = "small" /\ d_hash = HashErr) =>
          d_result = "AllUrlsFailed"
    /\ (d_pc = "done" /\ d_path = "large" /\ d_hash = HashErr) =>
          d_result = "VerifyFailed"

\* A step in which the single-stream loop sends a request to url.
SmallRequestTo(url) ==
    /\ d_path = "small"
    /\ requests'[url] = requests[url] + 1

\* C27: under Hybrid on the single-stream path the requests for the file
\* go out one at a time and origin first: a request is sent only when none
\* is awaiting its response, to one URL at a time; a mirror URL is requested
\* only when every origin URL has been requested its full budget of 2 and
\* the call has not succeeded; and a URL is requested only when the budget
\* of every URL before it in origin_urls ++ mirror_urls is spent.
C27_HybridSequentialOriginFirst ==
    [][d_cfg.strategy = "Hybrid" =>
          LET urls == d_task.official_urls \o d_task.mirror_urls IN
          /\ d_path' = "small" => d_inflight' \in {0, 1}
          /\ \A u \in FileUrls :
                SmallRequestTo(u) =>
                    /\ d_inflight = 0
                    /\ d_result = "none"
                    /\ \A v \in FileUrls \ {u} : requests'[v] = requests[v]
                    /\ u \in Range(d_task.mirror_urls) =>
                          \A o \in Range(d_task.official_urls) : requests[o] = 2
                    /\ \E k \in DOMAIN urls :
                          /\ urls[k] = u
                          /\ \A j \in 1..(k - 1) :
                                requests[urls[j]] = ClaimedSmallBudget(j)
      ]_vars

\* Hybrid with an origin URL and two mirrors: the origin has failed twice,
\* the first mirror has spent its budget, and the request to the second
\* mirror is the only one awaiting a response.
C27_Witness ==
    /\ d_cfg.strategy = "Hybrid"
    /\ d_path = "small"
    /\ d_task.official_urls = <<OriginUrl>>
    /\ d_task.mirror_urls = <<MirrorUrl, MirrorUrl2>>
    /\ requests[OriginUrl] = 2
    /\ requests[MirrorUrl] = d_cfg.max_retries
    /\ requests[MirrorUrl2] = 1
    /\ d_inflight = 1

\* download_file called for a file of every size S up to MaxSplitSize with
\* every chunk count n from 1 to S, the threshold at 0 so that the ranged
\* path splits it.
SplitInit ==
    /\ \E size \in 1..MaxSplitSize :
        /\ srv = [content |-> Resource(size), kind |-> "ranged"]
        /\ d_task = [DownloadTaskNew(<<OriginUrl>>, <<>>, "local_path")
                        EXCEPT !.file_size = Some(size)]
        /\ d_cfg \in [strategy : {"Hybrid"}, max_retries : {3},
                       large_file_threshold : {0}, large_file_chunks : 1..size]
    /\ fs_file = None
    /\ fs_parts = None
    /\ d_pc = "start"
    /\ d_path = "none"
    /\ d_result = "none"
    /\ requests = [u \in FileUrls |-> 0]
    /\ pre_hash = NotComputed
    /\ d_url_index = 0
    /\ d_attempt = 0
    /\ chunk_w = NoChunks
    /\ d_join = 0
    /\ finish_order = <<>>
    /\ d_merge = 0
    /\ chunk_faults = 0
    /\ d_inflight = 0
    /\ d_hash = NotComputed

\* download_file up to the spawning of the chunk workers, each with its
\* range.
SplitNext == \E io_ok \in BOOLEAN : DownloadFileEnter(io_ok)

\* C28: for a size S and a chunk count n with 1 <= n <= S the ranged path
\* gives its n workers the ranges [start_i, end_i] with start_0 = 0,
\* start_{i+1} = end_i + 1, start_i <= end_i and end_{n-1} = S - 1; no
\* value falls below 0 (no unsigned underflow) and none exceeds S (no
\* overflow).
C28_ChunkRanges ==
    d_path = "large" =>
        LET n == d_cfg.large_file_chunks
            S == d_task.file_size[1]
        IN  (n >= 1 /\ S >= n) =>
               /\ DOMAIN chunk_w = 0..(n - 1)
               /\ chunk_w[0].start = 0
               /\ chunk_w[n - 1].end = S - 1
               /\ \A i \in 0..(n - 1) :
                     /\ 0 <= chunk_w[i].start
                     /\ chunk_w[i].start <= chunk_w[i].end
                     /\ chunk_w[i].end + 1 <= S
                     /\ i < n - 1 => chunk_w[i + 1].start = chunk_w[i].end + 1

\* A file of 14 bytes split into 4 ranges: three of 3 bytes and the last of
\* 5, taking the remainder.
C28_Witness ==
    /\ d_path = "large"
    /\ d_task.file_size = Some(14)
    /\ d_cfg.large_file_chunks = 4
    /\ chunk_w[2].end = 8
    /\ chunk_w[3].start = 9
    /\ chunk_w[3].end = 13

\* A chunk worker of the ranged download has failed on all its URLs.
ChunkFailedAllUrls(w) == \E i \in DOMAIN w : w[i].st = "err"

\* C29: when a chunk of a ranged download has failed on all its URLs, the
\* call does not reach the merge and returns nothing but the failure; up to
\* that return local_path is not written (it holds what it held before the
\* call), and the .parts directory is still there.
C29_ChunkFailureLeavesFile ==
    [][ /\ (d_path' = "large" /\ d_pc' = "large") => fs_file' = fs_file
        /\ d_pc' = "merge" => ~ChunkFailedAllUrls(chunk_w')
        /\ (d_pc' = "done" /\ ChunkFailedAllUrls(chunk_w')) =>
              /\ d_result' = "ChunkFailed"
              /\ fs_file' = fs_file
              /\ fs_parts' # None
              /\ d_merge' = 0
        /\ (d_result = "none" /\ d_result' = "ChunkFailed") =>
              /\ d_pc = "large"
              /\ ChunkFailedAllUrls(chunk_w)
      ]_vars

\* A ranged download over an existing file has returned the failure: one
\* chunk failed, another had written its part, local_path still holds the
\* old content and the part directory is in place.
C29_Witness ==
    /\ d_result = "ChunkFailed"
    /\ fs_file = Some(Corrupt(srv.content))
    /\ fs_parts # None
    /\ \E i \in DOMAIN chunk_w : chunk_w[i].st = "err"
    /\ \E i \in DOMAIN chunk_w : chunk_w[i].st = "ok" /\ fs_parts[i] # None

\* C30: download_file takes the ranged path exactly when the task's size is
\* known and strictly greater than large_file_threshold; a size equal to
\* the threshold and an unknown size take the single-stream path.
C30_RangedIffAboveThreshold ==
    d_path \in {"small", "large"} =>
        (d_path = "large" <=>
            (d_task.file_size # None
             /\ d_task.file_size[1] > d_cfg.large_file_threshold))

\* A file whose size is known and equal to the threshold was fetched on the
\* single-stream path.
C30_Witness ==
    /\ d_task.file_size = Some(d_cfg.large_file_threshold)
    /\ d_path = "small"
    /\ requests[FileUrlList[1]] > 0

\* C36: when download_file has returned from the ranged path, with success
\* or with a failure, none of the chunk workers it spawned is still running,
\* and no step after the return sends a request or writes a part file.
C36_NoWorkerOutlivesCall ==
    /\ [](d_pc = "done" /\ d_path = "large" =>
            \A i \in DOMAIN chunk_w : chunk_w[i].st # "run")
    /\ [][d_pc = "done" /\ d_path = "large" =>
            requests' = requests /\ fs_parts' = fs_parts]_vars

\* C37: whenever a ranged download of a resource of the announced size
\* returns success, every response a chunk request accepted (206 with the
\* requested range, or any 2xx) has put exactly bytes start_i..end_i of the
\* resource into part i, and the merged local_path is exactly expected_size
\* bytes long.
C37_PartsExactOnSuccess ==
    (d_path = "large" /\ FileSize = Len(srv.content)) =>
        /\ fs_parts # None =>
              \A i \in DOMAIN chunk_w :
                  (chunk_w[i].st = "ok" /\ fs_parts[i] # None) =>
                      fs_parts[i] = Some(SubSeq(Served, chunk_w[i].start + 1,
                                                chunk_w[i].end + 1))
        /\ (d_pc = "done" /\ d_result = "Ok") =>
              (fs_file # None /\ Len(fs_file[1]) = FileSize)

\* ========================================================================
\* Specifications: one subsystem runs, the others stay idle
\* ========================================================================
InitBatch == BatchInit /\ TMIdle /\ ManIdle /\ PlanIdle /\ FileIdle /\ RouteIdle /\ AggIdle /\ LockIdle
SpecBatch == InitBatch /\ [][BatchNext]_vars
LiveBatch == SpecBatch /\ BatchFairness

InitTM == TMInit /\ BatchIdle /\ ManIdle /\ PlanIdle /\ FileIdle /\ RouteIdle /\ AggIdle /\ LockIdle
SpecRun == InitTM /\ [][RunNext]_vars
SpecTM == InitTM /\ [][TMNext]_vars

InitManifest == ManInit /\ BatchIdle /\ TMIdle /\ PlanIdle /\ FileIdle /\ RouteIdle /\ AggIdle /\ LockIdle
SpecManifest == InitManifest /\ [][ManNext]_vars

InitPlanner == PlanInit /\ BatchIdle /\ TMIdle /\ ManIdle /\ FileIdle /\ RouteIdle /\ AggIdle /\ LockIdle
SpecPlanner == InitPlanner /\ [][PlanNext]_vars

InitFile == FileInit /\ BatchIdle /\ TMIdle /\ ManIdle /\ PlanIdle /\ RouteIdle /\ AggIdle /\ LockIdle
SpecFile == InitFile /\ [][FileNext]_vars

InitSplit == SplitInit /\ BatchIdle /\ TMIdle /\ ManIdle /\ PlanIdle /\ RouteIdle /\ AggIdle /\ LockIdle
SpecSplit == InitSplit /\ [][SplitNext]_vars

InitRoute == RouteInit /\ BatchIdle /\ TMIdle /\ ManIdle /\ PlanIdle /\ FileIdle /\ AggIdle /\ LockIdle
SpecRoute == InitRoute /\ [][RouteNext]_vars

InitAgg ==
    TMInit /\ AggInit /\ BatchIdle /\ ManIdle /\ PlanIdle /\ FileIdle /\ RouteIdle /\ LockIdle
SpecAgg == InitAgg /\ [][AggNext]_vars

InitBytes ==
    TMInit /\ AggInit /\ BatchIdle /\ ManIdle /\ PlanIdle /\ FileIdle /\ RouteIdle /\ LockIdle
SpecBytes == InitBytes /\ [][BytesNext]_vars

InitLocks ==
    LockInit /\ BatchIdle /\ TMIdle /\ ManIdle /\ PlanIdle /\ FileIdle /\ RouteIdle /\ AggIdle
SpecLocks == InitLocks /\ [][LockNext]_vars

====
